---- MODULE Spec2Model ----
(***************************************************************************)
(* Offline-first synchronisation subsystem of fieldscore:                  *)
(*   SyncQueueService (durable queue + statistics over AsyncStorage) and   *)
(*   SyncManager (singleton orchestrator draining the queue).              *)
(*                                                                         *)
(* JavaScript runs the code on one event loop: a step of the model is the  *)
(* code between two suspension points (one AsyncStorage read or write, one *)
(* network call, together with the synchronous continuation after it).    *)
(* Steps of different asynchronous calls interleave freely.                *)
(***************************************************************************)
EXTENDS Integers, Sequences, FiniteSets, TLC

\* ------------------------------------------------------------ constants
MAX_RETRY_COUNT == 5
RETRY_DELAY_MS == 60000
SYNC_COOLDOWN_MS == 60000

\* ------------------------------------------------------------ bounds
\* activation records of attemptSync that may exist at the same time
NumCalls == 2
\* items ever put in the queue (persisted at start + enqueued)
MaxItems == 2
\* storage operations (AsyncStorage.getItem / setItem) that may throw
MaxFaults == 1
\* long clock jumps the clock may make
MaxJumps == 1

RECURSIVE Pow2(_)
Pow2(n) == IF n <= 0 THEN 1 ELSE 2 * Pow2(n - 1)

\* a jump long enough to pass every backoff window and the cooldown
JumpMs == RETRY_DELAY_MS * Pow2(MAX_RETRY_COUNT)
\* Date.now() when the application starts
StartTime == 2 * JumpMs

Calls == 1..NumCalls
Triggers == {"net", "app", "timer", "force"}
Outcomes == {"ok", "fail", "throw"}

\* ------------------------------------------------------------ state
VARIABLES
    syncQueue,   \* AsyncStorage['syncQueue']: the persisted SyncItem[]
    syncStats,   \* AsyncStorage['syncStats']: <<>> (absent) or <<SyncStats>>
    isRunning,   \* SyncManager.isRunning
    online,      \* NetInfo: state.isConnected
    now,         \* Date.now()
    lastStatus,  \* last status handed to onSyncStatusChange
    call,        \* activation records of SyncManager.attemptSync, each with
                 \* the answers it got (log) and the events it handed to
                 \* onSyncProgress (progress)
    adder,       \* activation record of SyncQueueService.addToQueue
    remover,     \* activation record of clearFailedItems / removeFromQueue
    probe,       \* what a direct caller of SyncQueueService got: the result
                 \* of getItemsReadyForRetry, or an exception thrown at it
    nextId,      \* number of ids generated so far + 1
    faults,      \* storage failures still to come
    mode,        \* which operations the callers issue without awaiting
    lifecycle,   \* NetInfo listeners and intervals that are registered, and
                 \* SyncManager.networkUnsubscribe / syncInterval
    submissions, \* per item id, the calls of ApiService.registerFarmer so far
    errorReporting, \* ErrorReportingService: errorQueue, isOnline, what is
                 \* saved in AsyncStorage, the numbers of errors handed to
                 \* queueError and to sendError by sendQueuedErrors
    apiRateLimit, \* ApiRateLimiter: rateLimits, what is saved in AsyncStorage,
                 \* what the last call returned
    storageService, \* StorageService: AsyncStorage['pendingRegistrations'],
                 \* the data of each queue item, the activation record of
                 \* saveFarmerData / migrateToSyncQueue
    apiClient    \* ApiClient: requestQueue, isOnline, isProcessingQueue, the
                 \* queueToProcess of a running processQueue

vars == <<syncQueue, syncStats, isRunning, online, now, lastStatus, call,
          adder, remover, probe, nextId, faults, mode, lifecycle,
          submissions, errorReporting, apiRateLimit,
          storageService, apiClient>>

\* ------------------------------------------------------------ SyncItem
NewItem(id, t) ==
    [id |-> id, status |-> "pending", retryCount |-> 0, timestamp |-> t]

FailedItem(id, k, t) ==
    [id |-> id, status |-> "failed", retryCount |-> k, timestamp |-> t,
     lastError |-> "Sync failed"]

PushOverwrite(q, item) == <<item>>

\* queue.push(queueItem)
Push(q, item) == Append(q, item)

MergeReplace(item, updates) == updates

\* { ...item, ...updates }
Merge(item, updates) ==
    [f \in (DOMAIN item) \cup (DOMAIN updates) |->
        IF f \in DOMAIN updates THEN updates[f] ELSE item[f]]

\* queue.findIndex(item => item.id === id); 0 stands for -1
FindIndex(q, id) ==
    IF \E i \in 1..Len(q) : q[i].id = id
    THEN CHOOSE i \in 1..Len(q) :
            /\ q[i].id = id
            /\ \A j \in 1..(i - 1) : q[j].id # id
    ELSE 0

\* queue.filter(item => item.id !== id)
RECURSIVE WithoutId(_, _)
WithoutId(q, id) ==
    IF q = <<>> THEN <<>>
    ELSE IF Head(q).id = id THEN WithoutId(Tail(q), id)
    ELSE <<Head(q)>> \o WithoutId(Tail(q), id)

Ids(q) == [i \in 1..Len(q) |-> q[i].id]

\* ------------------------------------------------------------ SyncStats
DefaultStats ==
    [totalItems |-> 0, pendingItems |-> 0, failedItems |-> 0,
     successItems |-> 0, processingItems |-> 0,
     lastSyncAttempt |-> 0, lastSuccessfulSync |-> 0]

CountStatus(q, s) == Cardinality({i \in 1..Len(q) : q[i].status = s})

\* getStats: data ? JSON.parse(data) : defaultStats; defaults when the read
\* throws
GetStats(ok) ==
    IF ok /\ syncStats # <<>> THEN syncStats[1] ELSE DefaultStats

\* getQueue: data ? JSON.parse(data) : []; [] when the read throws
GetQueue(ok) == IF ok THEN syncQueue ELSE <<>>

\* the assignments of updateStats
ComputeStats(q, st) ==
    [st EXCEPT !.totalItems = Len(q),
               !.pendingItems = CountStatus(q, "pending"),
               !.failedItems = CountStatus(q, "failed"),
               !.successItems = CountStatus(q, "success"),
               !.processingItems = CountStatus(q, "processing")]

\* ------------------------------------------------------------ retry gate
BackoffMs(k) == RETRY_DELAY_MS * Pow2(k)

BelowCeilingInclusive(item) == item.retryCount <= MAX_RETRY_COUNT

BelowCeiling(item) == item.retryCount < MAX_RETRY_COUNT

PastDelayLinear(item, t) ==
    (t - item.timestamp) > RETRY_DELAY_MS * item.retryCount

PastDelayLate(item, t) ==
    (t - item.timestamp) > BackoffMs(item.retryCount) + 1

PastDelay(item, t) == (t - item.timestamp) > BackoffMs(item.retryCount)

\* the filter predicate of getItemsReadyForRetry
IsReady(item, t) ==
    \/ item.status = "pending"
    \/ /\ item.status = "failed"
       /\ BelowCeiling(item)
       /\ PastDelay(item, t)

ItemsReadyAll(q, t) == q

ItemsReadyForRetry(q, t) == SelectSeq(q, LAMBDA item : IsReady(item, t))

\* hasPendingItems
HasPendingItems(q) ==
    \E i \in 1..Len(q) : q[i].status = "pending" \/ q[i].status = "failed"

CooldownNever(st, t) == FALSE

\* the last test of shouldAttemptSync
CooldownOver(st, t) ==
    st.lastSyncAttempt = 0 \/ (t - st.lastSyncAttempt) > SYNC_COOLDOWN_MS

\* ------------------------------------------------------------ storage faults
\* outcomes of one storage operation: TRUE = it succeeds, FALSE = it throws
StorageOutcomes == IF faults > 0 THEN {TRUE, FALSE} ELSE {TRUE}

Spend(ok) == faults' = IF ok THEN faults ELSE faults - 1

\* ------------------------------------------------------------ initial state
IdleCall ==
    [pc |-> "idle", sub |-> "none", force |-> FALSE, items |-> <<>>, idx |-> 0,
     completed |-> 0, failed |-> 0, outcome |-> "none", t |-> 0,
     q |-> <<>>, s |-> DefaultStats, log |-> <<>>, progress |-> <<>>]

IdleAdder == [pc |-> "idle", q |-> <<>>, s |-> DefaultStats, id |-> 0]

IdleRemover ==
    [pc |-> "idle", sub |-> "none", op |-> "none", queue |-> <<>>,
     work |-> <<>>, q |-> <<>>, s |-> DefaultStats]

\* retry counts of the failed items found in storage at start
InitRetries == {MAX_RETRY_COUNT - 1, MAX_RETRY_COUNT}

\* an item whose last submission failed exactly one backoff delay ago
Leftover(id, k) == FailedItem(id, k, StartTime - BackoffMs(k))

\* what earlier runs of the application may have left in storage: nothing,
\* one failed item, or two
InitQueues ==
    {<<>>} \cup
    {<<Leftover(1, k)>> : k \in InitRetries} \cup
    {<<Leftover(1, MAX_RETRY_COUNT - 1), Leftover(2, MAX_RETRY_COUNT)>>}

InitStats(q) ==
    IF q = <<>> THEN <<>>
    ELSE <<ComputeStats(q, [DefaultStats EXCEPT
                              !.lastSyncAttempt = q[Len(q)].timestamp])>>

\* the submissions earlier runs made: an item that failed k times was
\* submitted k times
SubmittedBefore(q) ==
    [id \in 1..MaxItems |->
        IF \E i \in 1..Len(q) : q[i].id = id
        THEN q[FindIndex(q, id)].retryCount
        ELSE 0]

\* the manager as the constructor leaves it: nothing registered, both
\* fields null (0)
Constructed ==
    [listeners |-> {}, timers |-> {}, networkUnsubscribe |-> 0,
     syncInterval |-> 0, inits |-> 0]

\* the manager after AppProvider's effect has called initialize once
Initialized ==
    [listeners |-> {1}, timers |-> {1}, networkUnsubscribe |-> 1,
     syncInterval |-> 1, inits |-> 1]

\* ------------------------------------------------------------ ApiRateLimiter
\* the largest maxRequests and timeWindow (ms) of the configurations used
MaxRequests == 2
MaxWindow == 2
\* milliseconds that pass while the rate limiter is exercised
MaxElapsed == 3
\* the most timestamps trackRequest lets one key hold
MaxTracked == 3

\* RateLimitConfig of the grouped endpoints; group "" stands for no group
GroupConfig ==
    [maxRequests |-> MaxRequests, timeWindow |-> MaxWindow, group |-> "auth"]

\* RateLimitConfig of the endpoint that has a limit of its own
SingleConfig == [maxRequests |-> 1, timeWindow |-> 1, group |-> ""]

\* the calls made: an endpoint and the config passed with it
Requests ==
    {[endpoint |-> "/login", config |-> GroupConfig],
     [endpoint |-> "/register", config |-> GroupConfig],
     [endpoint |-> "/farmers", config |-> SingleConfig]}

\* getRateLimitKey: the group if there is one, else the endpoint
GetRateLimitKey(endpoint, config) ==
    IF config.group # "" THEN config.group ELSE endpoint

KeyOf(r) == GetRateLimitKey(r.endpoint, r.config)

RateLimitKeys == {KeyOf(r) : r \in Requests}

\* this.rateLimits with no key in it: <<>> = no entry, <<RateLimitData>> else
NoRateLimits == [k \in RateLimitKeys |-> <<>>]

\* ------------------------------------------------------------ initial state, all services
\* ErrorReportingService before any error was logged
ErrorsAtStart ==
    [errorQueue |-> <<>>, isOnline |-> TRUE, stored |-> <<>>, queued |-> 0,
     sent |-> 0]

\* ApiRateLimiter after initialize on a fresh installation: no key yet
LimiterAtStart ==
    [rateLimits |-> NoRateLimits, stored |-> NoRateLimits, reply |-> <<>>]

\* StorageService on a fresh installation: no legacy list, no registration
\* saved yet (0 stands for the data of an item no registration is tracked
\* for), nothing in flight
StorageAtStart ==
    [pendingRegistrations |-> <<>>, data |-> [id \in 1..MaxItems |-> 0],
     saved |-> 0, pc |-> "idle", oldData |-> <<>>, idx |-> 0,
     existingData |-> <<>>]

\* ApiClient after initialize with no stored offline queue
ClientAtStart ==
    [requestQueue |-> <<>>, isOnline |-> TRUE, isProcessingQueue |-> FALSE,
     queueToProcess |-> <<>>, made |-> 0]

\* the application starts with queue q in storage
InitWith(q) ==
    /\ syncQueue = q
    /\ syncStats = InitStats(q)
    /\ isRunning = FALSE
    /\ online = TRUE
    /\ now = StartTime
    /\ lastStatus = "idle"
    /\ call = [c \in Calls |-> IdleCall]
    /\ adder = IdleAdder
    /\ remover = IdleRemover
    /\ probe = <<>>
    /\ nextId = Len(q) + 1
    /\ lifecycle = Initialized
    /\ submissions = SubmittedBefore(q)
    /\ errorReporting = ErrorsAtStart
    /\ apiRateLimit = LimiterAtStart
    /\ storageService = StorageAtStart
    /\ apiClient = ClientAtStart

InitCommon == \E q \in InitQueues : InitWith(q)

\* "serial": each operation is awaited before the next is issued, storage
\*           operations may throw, connectivity changes;
\* "add":    addToQueue is issued while sync cycles run;
\* "clear":  clearFailedItems is issued while sync cycles run
Modes == {"serial", "add", "clear"}

Init ==
    /\ InitCommon
    /\ mode \in Modes
    /\ faults = IF mode = "serial" THEN MaxFaults ELSE 0

\* every operation is awaited before the next is issued; storage never throws
InitSerial ==
    /\ InitCommon
    /\ faults = 0
    /\ mode = "serial"

Quiescent ==
    /\ \A c \in Calls : call[c].pc = "idle"
    /\ adder.pc = "idle"
    /\ remover.pc = "idle"

\* the kinds of operation in flight
InFlight ==
    {k \in {"sync", "add", "clear"} :
        \/ k = "sync" /\ \E c \in Calls : call[c].pc # "idle"
        \/ k = "add" /\ adder.pc # "idle"
        \/ k = "clear" /\ remover.pc # "idle"}

Overlapping == IF mode = "serial" THEN {} ELSE {"sync", mode}

\* may an operation of this kind be issued now
MayStart(kind) ==
    Quiescent \/ (kind \in Overlapping /\ InFlight \subseteq Overlapping)

\* ------------------------------------------------------------ attemptSync
SetCall(c, r) == call' = [call EXCEPT ![c] = r]

\* the activation record a new call of attemptSync gets
FreeSlot(c) ==
    /\ call[c].pc = "idle"
    /\ \A d \in Calls : d < c => call[d].pc # "idle"

IsBusyNever == FALSE

\* if (this.isRunning) ... return false
IsBusy == isRunning

\* the arguments of the three updateQueueItem calls of the drain loop
ProcessingUpdate(t) == [status |-> "processing", timestamp |-> t]

SuccessUpdate(t) == [status |-> "success", timestamp |-> t]

FailureRetryCountTwice(item) == item.retryCount + 2

\* retryCount: item.retryCount + 1
FailureRetryCount(item) == item.retryCount + 1

FailureUpdate(item, t, msg) ==
    [status |-> "failed", retryCount |-> FailureRetryCount(item),
     timestamp |-> t, lastError |-> msg]

CurrentItem(cr) == cr.items[cr.idx]

PendingUpdate(cr) ==
    IF cr.pc = "mark" THEN ProcessingUpdate(cr.t)
    ELSE IF cr.outcome = "ok" THEN SuccessUpdate(cr.t)
    ELSE FailureUpdate(CurrentItem(cr), cr.t,
            IF cr.outcome = "fail" THEN "Sync failed"
            ELSE "Network request failed")

FinalStatusAnyFailure(cr) ==
    IF cr.failed > 0 THEN "failed" ELSE "completed"

\* failed === total ? 'failed' : 'completed'
FinalStatus(cr) ==
    IF cr.failed = Len(cr.items) THEN "failed" ELSE "completed"

\* after the item was marked processing: this.syncItem(item)
AfterMark(cr) ==
    [cr EXCEPT !.pc = "submit", !.sub = "none", !.q = <<>>, !.s = DefaultStats]

LoopDoneOnFailure(cr) == cr.idx >= Len(cr.items) \/ cr.outcome # "ok"

\* is the for loop over after the item at idx
LoopDone(cr) == cr.idx >= Len(cr.items)

ProgressEventSoFar(cr) ==
    [total |-> cr.idx,
     completed |-> IF cr.outcome = "ok" THEN cr.completed + 1
                   ELSE cr.completed,
     failed |-> IF cr.outcome = "ok" THEN cr.failed ELSE cr.failed + 1]

\* the argument of onSyncProgress after the item at idx: { total, completed,
\* failed } with the counter of the outcome already incremented
ProgressEvent(cr) ==
    [total |-> Len(cr.items),
     completed |-> IF cr.outcome = "ok" THEN cr.completed + 1
                   ELSE cr.completed,
     failed |-> IF cr.outcome = "ok" THEN cr.failed ELSE cr.failed + 1]

\* after the outcome of an item was recorded: completed++ / failed++,
\* onSyncProgress, next item of the loop or updateStats
AfterResult(cr) ==
    [cr EXCEPT
        !.progress = Append(@, ProgressEvent(cr)),
        !.completed = IF cr.outcome = "ok" THEN @ + 1 ELSE @,
        !.failed = IF cr.outcome = "ok" THEN @ ELSE @ + 1,
        !.outcome = "none",
        !.q = <<>>, !.s = DefaultStats,
        !.idx = IF LoopDone(cr) THEN @ ELSE @ + 1,
        !.t = IF LoopDone(cr) THEN 0 ELSE now,
        !.pc = IF LoopDone(cr) THEN "fin" ELSE "mark",
        !.sub = IF LoopDone(cr) THEN "sq" ELSE "read"]

AfterUpdate(cr) == IF cr.pc = "mark" THEN AfterMark(cr) ELSE AfterResult(cr)

AfterFinStatsAlways(cr) ==
    [cr EXCEPT !.pc = "succ", !.sub = "read", !.q = <<>>, !.s = DefaultStats]

\* after the updateStats that follows the loop
AfterFinStats(cr) ==
    IF cr.completed > 0
    THEN [cr EXCEPT !.pc = "succ", !.sub = "read", !.q = <<>>,
                    !.s = DefaultStats]
    ELSE [cr EXCEPT !.pc = "finish"]

\* the value attemptSync returns after the drain loop: completed > 0
LoopResult(cr) == cr.completed > 0

\* the value a call hands back when it returns from this point: false when
\* the gate refused, true when no item was eligible, else completed > 0
ReturnValue(cr) ==
    IF cr.pc = "gate" THEN FALSE
    ELSE IF cr.pc = "fetch" THEN TRUE
    ELSE LoopResult(cr)

\* a call returns: its activation record is gone
Return(c) == SetCall(c, IdleCall)

\* go on with record r; a record at "finish" reports the final status,
\* clears isRunning and returns completed > 0
Resume(c, r) ==
    IF r.pc = "finish"
    THEN /\ lastStatus' = FinalStatus(r)
         /\ isRunning' = FALSE
         /\ Return(c)
    ELSE /\ SetCall(c, r)
         /\ UNCHANGED <<isRunning, lastStatus>>

ReturnCompleted(c) ==
    /\ isRunning' = FALSE
    /\ Return(c)
    /\ lastStatus' = "completed"

\* shouldSync is false: isRunning = false; return false
ReturnFalse(c) ==
    /\ isRunning' = FALSE
    /\ Return(c)
    /\ UNCHANGED lastStatus

\* a trigger calls attemptSync(forceSync)
AttemptSync(c, trig) ==
    /\ FreeSlot(c)
    /\ MayStart("sync")
    /\ trig \in {"net", "app"} => online
    /\ IF IsBusy
       THEN UNCHANGED <<isRunning, call>>
       ELSE /\ isRunning' = TRUE
            /\ SetCall(c, [IdleCall EXCEPT
                    !.force = (trig = "force"),
                    !.pc = IF trig = "force" THEN "stamp" ELSE "gate",
                    !.sub = IF trig = "force" THEN "read" ELSE "online"])
    /\ UNCHANGED <<syncQueue, syncStats, online, now, lastStatus, adder,
                   remover, probe, nextId, faults, mode, lifecycle,
                   submissions,
                   errorReporting, apiRateLimit,
                   storageService, apiClient>>

\* shouldAttemptSync: await this.isOnline()
GateOnline(c) ==
    /\ call[c].pc = "gate" /\ call[c].sub = "online"
    /\ IF online
       THEN /\ SetCall(c, [call[c] EXCEPT !.sub = "items"])
            /\ UNCHANGED <<isRunning, lastStatus>>
       ELSE ReturnFalse(c)
    /\ UNCHANGED <<syncQueue, syncStats, online, now, adder, remover, probe,
                   nextId, faults, mode, lifecycle, submissions,
                   errorReporting, apiRateLimit,
                   storageService, apiClient>>

\* shouldAttemptSync: await this.hasPendingItems()
GateItems(c) ==
    /\ call[c].pc = "gate" /\ call[c].sub = "items"
    /\ \E ok \in StorageOutcomes :
        /\ Spend(ok)
        /\ IF HasPendingItems(GetQueue(ok))
           THEN /\ SetCall(c, [call[c] EXCEPT !.sub = "stats"])
                /\ UNCHANGED <<isRunning, lastStatus>>
           ELSE ReturnFalse(c)
    /\ UNCHANGED <<syncQueue, syncStats, online, now, adder, remover, probe,
                   nextId, mode, lifecycle, submissions,
                   errorReporting, apiRateLimit,
                   storageService, apiClient>>

\* shouldAttemptSync: await this.getStats(), the cooldown test
GateStats(c) ==
    /\ call[c].pc = "gate" /\ call[c].sub = "stats"
    /\ \E ok \in StorageOutcomes :
        /\ Spend(ok)
        /\ IF CooldownOver(GetStats(ok), now)
           THEN /\ SetCall(c, [call[c] EXCEPT !.pc = "stamp", !.sub = "read"])
                /\ UNCHANGED <<isRunning, lastStatus>>
           ELSE ReturnFalse(c)
    /\ UNCHANGED <<syncQueue, syncStats, online, now, adder, remover, probe,
                   nextId, mode, lifecycle, submissions,
                   errorReporting, apiRateLimit,
                   storageService, apiClient>>

\* updateLastSyncAttempt: getStats, stats.lastSyncAttempt = Date.now()
StampRead(c) ==
    /\ call[c].pc = "stamp" /\ call[c].sub = "read"
    /\ \E ok \in StorageOutcomes :
        /\ Spend(ok)
        /\ SetCall(c, [call[c] EXCEPT
                !.s = [GetStats(ok) EXCEPT !.lastSyncAttempt = now],
                !.sub = "write"])
    /\ UNCHANGED <<syncQueue, syncStats, isRunning, online, now, lastStatus,
                   adder, remover, probe, nextId, mode, lifecycle,
                   submissions,
                   errorReporting, apiRateLimit,
                   storageService, apiClient>>

\* updateLastSyncAttempt: setItem; then onSyncStatusChange('syncing')
StampWrite(c) ==
    /\ call[c].pc = "stamp" /\ call[c].sub = "write"
    /\ \E ok \in StorageOutcomes :
        /\ Spend(ok)
        /\ syncStats' = IF ok THEN <<call[c].s>> ELSE syncStats
    /\ lastStatus' = "syncing"
    /\ SetCall(c, [call[c] EXCEPT !.pc = "fetch", !.sub = "none",
                                  !.s = DefaultStats])
    /\ UNCHANGED <<syncQueue, isRunning, online, now, adder, remover, probe,
                   nextId, mode, lifecycle, submissions,
                   errorReporting, apiRateLimit,
                   storageService, apiClient>>

\* getItemsReadyForRetry; an empty list ends the cycle with 'completed'
Fetch(c) ==
    /\ call[c].pc = "fetch"
    /\ \E ok \in StorageOutcomes :
        /\ Spend(ok)
        /\ LET ready == ItemsReadyForRetry(GetQueue(ok), now) IN
           IF ready = <<>>
           THEN /\ lastStatus' = "completed"
                /\ isRunning' = FALSE
                /\ Return(c)
           ELSE /\ SetCall(c, [call[c] EXCEPT
                        !.items = ready, !.idx = 1, !.t = now,
                        !.pc = "mark", !.sub = "read"])
                /\ UNCHANGED <<isRunning, lastStatus>>
    /\ UNCHANGED <<syncQueue, syncStats, online, now, adder, remover, probe,
                   nextId, mode, lifecycle, submissions,
                   errorReporting, apiRateLimit,
                   storageService, apiClient>>

\* updateQueueItem: getQueue, findIndex, merge the updates
CallUpdateRead(c) ==
    /\ call[c].pc \in {"mark", "res"} /\ call[c].sub = "read"
    /\ \E ok \in StorageOutcomes :
        /\ Spend(ok)
        /\ LET q == GetQueue(ok)
               i == FindIndex(q, CurrentItem(call[c]).id) IN
           IF i = 0
           THEN SetCall(c, AfterUpdate(call[c]))
           ELSE SetCall(c, [call[c] EXCEPT
                    !.q = [q EXCEPT ![i] = Merge(q[i], PendingUpdate(call[c]))],
                    !.sub = "write"])
    /\ UNCHANGED <<syncQueue, syncStats, isRunning, online, now, lastStatus,
                   adder, remover, probe, nextId, mode, lifecycle,
                   submissions,
                   errorReporting, apiRateLimit,
                   storageService, apiClient>>

\* updateQueueItem: setItem; a throw is caught and false returned
CallUpdateWrite(c) ==
    /\ call[c].pc \in {"mark", "res"} /\ call[c].sub = "write"
    /\ \E ok \in StorageOutcomes :
        /\ Spend(ok)
        /\ IF ok
           THEN /\ syncQueue' = call[c].q
                /\ SetCall(c, [call[c] EXCEPT !.sub = "sq", !.q = <<>>])
           ELSE /\ UNCHANGED syncQueue
                /\ SetCall(c, AfterUpdate(call[c]))
    /\ UNCHANGED <<syncStats, isRunning, online, now, lastStatus, adder,
                   remover, probe, nextId, mode, lifecycle, submissions,
                   errorReporting, apiRateLimit,
                   storageService, apiClient>>

\* updateStats: getQueue
CallStatsQueue(c) ==
    /\ call[c].pc \in {"mark", "res", "fin"} /\ call[c].sub = "sq"
    /\ \E ok \in StorageOutcomes :
        /\ Spend(ok)
        /\ SetCall(c, [call[c] EXCEPT !.q = GetQueue(ok), !.sub = "ss"])
    /\ UNCHANGED <<syncQueue, syncStats, isRunning, online, now, lastStatus,
                   adder, remover, probe, nextId, mode, lifecycle,
                   submissions,
                   errorReporting, apiRateLimit,
                   storageService, apiClient>>

\* updateStats: getStats, the counts
CallStatsStats(c) ==
    /\ call[c].pc \in {"mark", "res", "fin"} /\ call[c].sub = "ss"
    /\ \E ok \in StorageOutcomes :
        /\ Spend(ok)
        /\ SetCall(c, [call[c] EXCEPT
                !.s = ComputeStats(call[c].q, GetStats(ok)),
                !.q = <<>>, !.sub = "sw"])
    /\ UNCHANGED <<syncQueue, syncStats, isRunning, online, now, lastStatus,
                   adder, remover, probe, nextId, mode, lifecycle,
                   submissions,
                   errorReporting, apiRateLimit,
                   storageService, apiClient>>

\* updateStats: setItem; then the caller goes on
CallStatsWrite(c) ==
    /\ call[c].pc \in {"mark", "res", "fin"} /\ call[c].sub = "sw"
    /\ \E ok \in StorageOutcomes :
        /\ Spend(ok)
        /\ syncStats' = IF ok THEN <<call[c].s>> ELSE syncStats
    /\ Resume(c, IF call[c].pc = "fin" THEN AfterFinStats(call[c])
                 ELSE AfterUpdate(call[c]))
    /\ UNCHANGED <<syncQueue, online, now, adder, remover, probe, nextId, mode,
                   lifecycle, submissions,
                   errorReporting, apiRateLimit,
                   storageService, apiClient>>

\* syncItem: ApiService.registerFarmer answers success, success:false or throws
Submit(c) ==
    /\ call[c].pc = "submit"
    /\ \E o \in Outcomes :
        SetCall(c, [call[c] EXCEPT
            !.outcome = o, !.t = now,
            !.log = Append(@, [id |-> CurrentItem(call[c]).id,
                               outcome |-> o]),
            !.pc = "res", !.sub = "read"])
    /\ submissions' = [submissions EXCEPT ![CurrentItem(call[c]).id] = @ + 1]
    /\ UNCHANGED <<syncQueue, syncStats, isRunning, online, now, lastStatus,
                   adder, remover, probe, nextId, faults, mode, lifecycle,
                   errorReporting, apiRateLimit,
                   storageService, apiClient>>

\* updateLastSuccessfulSync: getStats, stats.lastSuccessfulSync = Date.now()
SuccessRead(c) ==
    /\ call[c].pc = "succ" /\ call[c].sub = "read"
    /\ \E ok \in StorageOutcomes :
        /\ Spend(ok)
        /\ SetCall(c, [call[c] EXCEPT
                !.s = [GetStats(ok) EXCEPT !.lastSuccessfulSync = now],
                !.sub = "write"])
    /\ UNCHANGED <<syncQueue, syncStats, isRunning, online, now, lastStatus,
                   adder, remover, probe, nextId, mode, lifecycle,
                   submissions,
                   errorReporting, apiRateLimit,
                   storageService, apiClient>>

\* updateLastSuccessfulSync: setItem; then the final status, isRunning = false
SuccessWrite(c) ==
    /\ call[c].pc = "succ" /\ call[c].sub = "write"
    /\ \E ok \in StorageOutcomes :
        /\ Spend(ok)
        /\ syncStats' = IF ok THEN <<call[c].s>> ELSE syncStats
    /\ Resume(c, [call[c] EXCEPT !.pc = "finish"])
    /\ UNCHANGED <<syncQueue, online, now, adder, remover, probe, nextId, mode,
                   lifecycle, submissions,
                   errorReporting, apiRateLimit,
                   storageService, apiClient>>

\* ------------------------------------------------------------ addToQueue
\* addToQueue is called: getQueue; the new item (id, Date.now(), retryCount 0,
\* pending); queue.push
AddToQueue ==
    /\ adder.pc = "idle"
    /\ MayStart("add")
    /\ nextId <= MaxItems
    /\ \E ok \in StorageOutcomes :
        /\ Spend(ok)
        /\ adder' = [adder EXCEPT
                !.q = Push(GetQueue(ok), NewItem(nextId, now)),
                !.id = nextId,
                !.pc = "write"]
    /\ nextId' = nextId + 1
    /\ UNCHANGED <<syncQueue, syncStats, isRunning, online, now, lastStatus,
                   call, remover, probe, mode, lifecycle, submissions,
                   errorReporting, apiRateLimit,
                   storageService, apiClient>>

\* what the caller of addToQueue sees when the catch block throws again
Thrown(op) == <<[op |-> op, threw |-> TRUE]>>

\* setItem; a throw is logged and thrown again to the caller
AddWrite ==
    /\ adder.pc = "write"
    /\ \E ok \in StorageOutcomes :
        /\ Spend(ok)
        /\ IF ok
           THEN /\ syncQueue' = adder.q
                /\ adder' = [adder EXCEPT !.pc = "sq", !.q = <<>>]
                /\ UNCHANGED probe
           ELSE /\ UNCHANGED syncQueue
                /\ adder' = IdleAdder
                /\ probe' = Thrown("addToQueue")
    /\ UNCHANGED <<syncStats, isRunning, online, now, lastStatus, call,
                   remover, nextId, mode, lifecycle, submissions,
                   errorReporting, apiRateLimit,
                   storageService, apiClient>>

AddStatsQueue ==
    /\ adder.pc = "sq"
    /\ \E ok \in StorageOutcomes :
        /\ Spend(ok)
        /\ adder' = [adder EXCEPT !.q = GetQueue(ok), !.pc = "ss"]
    /\ UNCHANGED <<syncQueue, syncStats, isRunning, online, now, lastStatus,
                   call, remover, probe, nextId, mode, lifecycle, submissions,
                   errorReporting, apiRateLimit,
                   storageService, apiClient>>

AddStatsStats ==
    /\ adder.pc = "ss"
    /\ \E ok \in StorageOutcomes :
        /\ Spend(ok)
        /\ adder' = [adder EXCEPT
                !.s = ComputeStats(adder.q, GetStats(ok)),
                !.q = <<>>, !.pc = "sw"]
    /\ UNCHANGED <<syncQueue, syncStats, isRunning, online, now, lastStatus,
                   call, remover, probe, nextId, mode, lifecycle, submissions,
                   errorReporting, apiRateLimit,
                   storageService, apiClient>>

\* updateStats: setItem; return id
AddStatsWrite ==
    /\ adder.pc = "sw"
    /\ \E ok \in StorageOutcomes :
        /\ Spend(ok)
        /\ syncStats' = IF ok THEN <<adder.s>> ELSE syncStats
    /\ adder' = IdleAdder
    /\ UNCHANGED <<syncQueue, isRunning, online, now, lastStatus, call,
                   remover, probe, nextId, mode, lifecycle, submissions,
                   errorReporting, apiRateLimit,
                   storageService, apiClient>>

\* ------------------------------------------------------------ removal
IsClearedAnyFailed(item) == item.status = "failed"

\* item.status === 'failed' && item.retryCount >= 5
IsCleared(item) == item.status = "failed" /\ item.retryCount >= 5

\* after one removeFromQueue returned: the next item of the for loop
RemoveNext(r) ==
    IF Len(r.work) <= 1 THEN IdleRemover
    ELSE [r EXCEPT !.work = Tail(@), !.sub = "read", !.q = <<>>,
                   !.s = DefaultStats]

\* clearFailedItems is called: getQueue, queue.filter
ClearFailedItems ==
    /\ remover.pc = "idle"
    /\ MayStart("clear")
    /\ \E ok \in StorageOutcomes :
        /\ Spend(ok)
        /\ LET queue == GetQueue(ok)
               work == Ids(SelectSeq(queue, IsCleared)) IN
           remover' = IF work = <<>> THEN IdleRemover
                      ELSE [remover EXCEPT !.pc = "remove", !.sub = "read",
                                           !.op = "clear", !.queue = queue,
                                           !.work = work]
    /\ UNCHANGED <<syncQueue, syncStats, isRunning, online, now, lastStatus,
                   call, adder, probe, nextId, mode, lifecycle, submissions,
                   errorReporting, apiRateLimit,
                   storageService, apiClient>>

\* a direct call of removeFromQueue(id)
RemoveFromQueue(id) ==
    /\ mode = "serial"
    /\ Quiescent
    /\ remover' = [IdleRemover EXCEPT !.pc = "remove", !.sub = "read",
                                      !.op = "remove", !.work = <<id>>]
    /\ UNCHANGED <<syncQueue, syncStats, isRunning, online, now, lastStatus,
                   call, adder, probe, nextId, faults, mode, lifecycle,
                   submissions,
                   errorReporting, apiRateLimit,
                   storageService, apiClient>>

\* removeFromQueue: getQueue, filter, the length test
RemoveRead ==
    /\ remover.pc = "remove" /\ remover.sub = "read"
    /\ \E ok \in StorageOutcomes :
        /\ Spend(ok)
        /\ LET q == GetQueue(ok)
               newQueue == WithoutId(q, Head(remover.work)) IN
           remover' = IF Len(newQueue) = Len(q) THEN RemoveNext(remover)
                      ELSE [remover EXCEPT !.q = newQueue, !.sub = "write"]
    /\ UNCHANGED <<syncQueue, syncStats, isRunning, online, now, lastStatus,
                   call, adder, probe, nextId, mode, lifecycle, submissions,
                   errorReporting, apiRateLimit,
                   storageService, apiClient>>

\* removeFromQueue: setItem; a throw is caught and false returned
RemoveWrite ==
    /\ remover.pc = "remove" /\ remover.sub = "write"
    /\ \E ok \in StorageOutcomes :
        /\ Spend(ok)
        /\ IF ok
           THEN /\ syncQueue' = remover.q
                /\ remover' = [remover EXCEPT !.sub = "sq", !.q = <<>>]
           ELSE /\ UNCHANGED syncQueue
                /\ remover' = RemoveNext(remover)
    /\ UNCHANGED <<syncStats, isRunning, online, now, lastStatus, call, adder,
                   probe, nextId, mode, lifecycle, submissions,
                   errorReporting, apiRateLimit,
                   storageService, apiClient>>

RemoveStatsQueue ==
    /\ remover.pc = "remove" /\ remover.sub = "sq"
    /\ \E ok \in StorageOutcomes :
        /\ Spend(ok)
        /\ remover' = [remover EXCEPT !.q = GetQueue(ok), !.sub = "ss"]
    /\ UNCHANGED <<syncQueue, syncStats, isRunning, online, now, lastStatus,
                   call, adder, probe, nextId, mode, lifecycle, submissions,
                   errorReporting, apiRateLimit,
                   storageService, apiClient>>

RemoveStatsStats ==
    /\ remover.pc = "remove" /\ remover.sub = "ss"
    /\ \E ok \in StorageOutcomes :
        /\ Spend(ok)
        /\ remover' = [remover EXCEPT
                !.s = ComputeStats(remover.q, GetStats(ok)),
                !.q = <<>>, !.sub = "sw"]
    /\ UNCHANGED <<syncQueue, syncStats, isRunning, online, now, lastStatus,
                   call, adder, probe, nextId, mode, lifecycle, submissions,
                   errorReporting, apiRateLimit,
                   storageService, apiClient>>

RemoveStatsWrite ==
    /\ remover.pc = "remove" /\ remover.sub = "sw"
    /\ \E ok \in StorageOutcomes :
        /\ Spend(ok)
        /\ syncStats' = IF ok THEN <<remover.s>> ELSE syncStats
    /\ remover' = RemoveNext(remover)
    /\ UNCHANGED <<syncQueue, isRunning, online, now, lastStatus, call, adder,
                   probe, nextId, mode, lifecycle, submissions,
                   errorReporting, apiRateLimit,
                   storageService, apiClient>>

\* ------------------------------------------------------------ environment
\* NetInfo: connectivity is lost or comes back
SetOnline ==
    /\ mode = "serial"
    /\ online' = ~online
    /\ UNCHANGED <<syncQueue, syncStats, isRunning, now, lastStatus, call,
                   adder, remover, probe, nextId, faults, mode, lifecycle,
                   submissions,
                   errorReporting, apiRateLimit,
                   storageService, apiClient>>

ClockSteps == {JumpMs}

MayAdvance(d) == now + d <= StartTime + MaxJumps * JumpMs

\* time passes between operations
Advance ==
    /\ Quiescent
    /\ \E d \in ClockSteps :
        /\ MayAdvance(d)
        /\ now' = now + d
    /\ UNCHANGED <<syncQueue, syncStats, isRunning, online, lastStatus, call,
                   adder, remover, probe, nextId, faults, mode, lifecycle,
                   submissions,
                   errorReporting, apiRateLimit,
                   storageService, apiClient>>

\* ------------------------------------------------------------ retry gate, direct
\* single milliseconds the clock may advance
MaxTicks == 2

\* a direct call of getItemsReadyForRetry; at is the Date.now() it read
GetItemsReadyForRetry ==
    /\ Quiescent
    /\ \E ok \in StorageOutcomes :
        /\ Spend(ok)
        /\ probe' = <<[at |-> now,
                       items |-> ItemsReadyForRetry(GetQueue(ok), now)]>>
    /\ UNCHANGED <<syncQueue, syncStats, isRunning, online, now, lastStatus,
                   call, adder, remover, nextId, mode, lifecycle, submissions,
                   errorReporting, apiRateLimit,
                   storageService, apiClient>>

\* one millisecond passes
Tick ==
    /\ now < StartTime + MaxTicks
    /\ now' = now + 1
    /\ UNCHANGED <<syncQueue, syncStats, isRunning, online, lastStatus, call,
                   adder, remover, probe, nextId, faults, mode, lifecycle,
                   submissions,
                   errorReporting, apiRateLimit,
                   storageService, apiClient>>

\* a failed item whose last transition was one backoff delay, one millisecond
\* less or one millisecond more before the start
NearThreshold(id, k, e) == FailedItem(id, k, StartTime - BackoffMs(k) + e)

RetryQueues ==
    {<<NearThreshold(1, k, e)>> : k \in 1..MAX_RETRY_COUNT, e \in {-1, 0, 1}}
    \cup {<<NewItem(1, StartTime - 1)>>}
    \cup {<<NewItem(1, StartTime - 1), NearThreshold(2, k, e)>> :
            k \in 1..MAX_RETRY_COUNT, e \in {-1, 0, 1}}

InitRetry ==
    /\ \E q \in RetryQueues : InitWith(q)
    /\ faults = 0
    /\ mode = "serial"

NextRetry ==
    \/ GetItemsReadyForRetry
    \/ Tick

\* ------------------------------------------------------------ specification
Next ==
    \/ \E c \in Calls, trig \in Triggers : AttemptSync(c, trig)
    \/ \E c \in Calls : GateOnline(c)
    \/ \E c \in Calls : GateItems(c)
    \/ \E c \in Calls : GateStats(c)
    \/ \E c \in Calls : StampRead(c)
    \/ \E c \in Calls : StampWrite(c)
    \/ \E c \in Calls : Fetch(c)
    \/ \E c \in Calls : CallUpdateRead(c)
    \/ \E c \in Calls : CallUpdateWrite(c)
    \/ \E c \in Calls : CallStatsQueue(c)
    \/ \E c \in Calls : CallStatsStats(c)
    \/ \E c \in Calls : CallStatsWrite(c)
    \/ \E c \in Calls : Submit(c)
    \/ \E c \in Calls : SuccessRead(c)
    \/ \E c \in Calls : SuccessWrite(c)
    \/ AddToQueue
    \/ AddWrite
    \/ AddStatsQueue
    \/ AddStatsStats
    \/ AddStatsWrite
    \/ ClearFailedItems
    \/ \E id \in 1..MaxItems : RemoveFromQueue(id)
    \/ RemoveRead
    \/ RemoveWrite
    \/ RemoveStatsQueue
    \/ RemoveStatsStats
    \/ RemoveStatsWrite
    \/ SetOnline
    \/ Advance

\* every interleaving of the asynchronous operations, storage may throw
Spec == Init /\ [][Next]_vars

\* the operations one after the other, storage never throws
SpecSerial == InitSerial /\ [][Next]_vars

\* getItemsReadyForRetry called at times around the backoff thresholds
SpecRetry == InitRetry /\ [][NextRetry]_vars

InitAdds ==
    /\ InitWith(<<>>)
    /\ faults = 0
    /\ mode = "serial"

NextAdds ==
    \/ AddToQueue
    \/ AddWrite
    \/ AddStatsQueue
    \/ AddStatsStats
    \/ AddStatsWrite
    \/ SetOnline
    \/ Tick

\* a fresh installation where nothing but addToQueue is called
SpecAdds == InitAdds /\ [][NextAdds]_vars

\* ------------------------------------------------------------ generated ids
\* values Math.random().toString(36).substring(2, 9) may take
NumTails == 2

RandomTails == 1..NumTails

\* `farmer_${Date.now()}_${Math.random().toString(36).substring(2, 9)}`
GenId(t, r) == <<"farmer", t, r>>

\* addToQueue with the id as the code builds it, from the clock and a random
\* tail; AddToQueue above covers the runs in which the ids come out distinct
AddToQueueGen ==
    /\ adder.pc = "idle"
    /\ Quiescent
    /\ nextId <= MaxItems
    /\ \E r \in RandomTails : \E ok \in StorageOutcomes :
        /\ Spend(ok)
        /\ adder' = [adder EXCEPT
                !.q = Push(GetQueue(ok), NewItem(GenId(now, r), now)),
                !.id = GenId(now, r),
                !.pc = "write"]
    /\ nextId' = nextId + 1
    /\ UNCHANGED <<syncQueue, syncStats, isRunning, online, now, lastStatus,
                   call, remover, probe, mode, lifecycle, submissions,
                   errorReporting, apiRateLimit,
                   storageService, apiClient>>

NextIds ==
    \/ AddToQueueGen
    \/ AddWrite
    \/ AddStatsQueue
    \/ AddStatsStats
    \/ AddStatsWrite
    \/ SetOnline
    \/ Tick

\* addToQueue called one call after the other, ids as generated
SpecIds == InitAdds /\ [][NextIds]_vars

\* ------------------------------------------------------------ properties
Active == {c \in Calls : call[c].pc # "idle"}

QueueItems == {syncQueue[i] : i \in 1..Len(syncQueue)}

HasId(q, id) == \E i \in 1..Len(q) : q[i].id = id

\* C1: at most one drain cycle is active at any time; a call starts a
\* cycle only in the step that finds isRunning false and sets it; and no
\* call of attemptSync made while isRunning is set starts a cycle: it
\* changes neither the queue nor the stats and submits nothing.
C1_SingleCycle ==
    /\ [](Cardinality(Active) <= 1 /\ (isRunning <=> Active # {}))
    /\ [][\A c \in Calls :
            (call[c].pc = "idle" /\ call'[c].pc # "idle")
            => (~isRunning /\ isRunning')]_vars
    /\ [][isRunning =>
            /\ \A c \in Calls : call[c].pc = "idle" => call'[c].pc = "idle"
            /\ \A c \in Calls, trig \in Triggers :
                AttemptSync(c, trig) =>
                    UNCHANGED <<syncQueue, syncStats, call>>]_vars

\* a trigger may fire while a cycle awaits the submission of an item
C1_Witness ==
    /\ isRunning
    /\ online
    /\ call[1].pc = "submit"
    /\ call[2].pc = "idle"
    /\ mode # "serial"

\* C2: every item of the persisted queue has 0 <= retryCount <= 5.
C2_RetryCountBounded ==
    \A item \in QueueItems :
        item.retryCount >= 0 /\ item.retryCount <= MAX_RETRY_COUNT

\* a cycle of this run has moved an item to the ceiling
C2_Witness ==
    \E item \in QueueItems :
        /\ item.status = "failed"
        /\ item.retryCount = MAX_RETRY_COUNT
        /\ item.timestamp >= StartTime

\* C3: a failed item with retryCount k < 5 is not returned by
\* getItemsReadyForRetry called less than 60000 * 2^k ms after the item's
\* timestamp.
C3_ExcludedInsideBackoff ==
    \A i \in 1..Len(probe) : \A item \in QueueItems :
        ( /\ item.status = "failed"
          /\ item.retryCount < 5
          /\ probe[i].at - item.timestamp < 60000 * Pow2(item.retryCount) )
        => ~HasId(probe[i].items, item.id)

\* a call made one millisecond before the threshold
C3_Witness ==
    \E i \in 1..Len(probe) : \E item \in QueueItems :
        /\ item.status = "failed"
        /\ item.retryCount < 5
        /\ probe[i].at - item.timestamp = 60000 * Pow2(item.retryCount) - 1
        /\ ~HasId(probe[i].items, item.id)

\* C4 as stated: a failed item with retryCount k < 5 is returned by
\* getItemsReadyForRetry called 60000 * 2^k ms or more after the item's
\* timestamp.
C4_IncludedAtThreshold ==
    \A i \in 1..Len(probe) : \A item \in QueueItems :
        ( /\ item.status = "failed"
          /\ item.retryCount < 5
          /\ probe[i].at - item.timestamp >= 60000 * Pow2(item.retryCount) )
        => HasId(probe[i].items, item.id)

\* C4 amended: the item is returned when more than 60000 * 2^k ms have
\* passed, and is not returned when exactly 60000 * 2^k ms have passed.
C4_IncludedPastThreshold ==
    \A i \in 1..Len(probe) : \A item \in QueueItems :
        ( /\ item.status = "failed"
          /\ item.retryCount < 5 )
        => /\ probe[i].at - item.timestamp > 60000 * Pow2(item.retryCount)
                => HasId(probe[i].items, item.id)
           /\ probe[i].at - item.timestamp = 60000 * Pow2(item.retryCount)
                => ~HasId(probe[i].items, item.id)

\* a call made one millisecond after the threshold returns the item
C4_Witness ==
    \E i \in 1..Len(probe) : \E item \in QueueItems :
        /\ item.status = "failed"
        /\ item.retryCount < 5
        /\ probe[i].at - item.timestamp = 60000 * Pow2(item.retryCount) + 1
        /\ HasId(probe[i].items, item.id)

\* times at which getItemsReadyForRetry may be called later on
LaterTimes == {now, now + RETRY_DELAY_MS, now + JumpMs, now + 1000 * JumpMs}

\* C5: a failed item with retryCount >= 5 is returned by
\* getItemsReadyForRetry at no time, and no cycle holds it in its list of
\* items to submit.
C5_CeilingNeverRetried ==
    /\ \A item \in QueueItems :
        (item.status = "failed" /\ item.retryCount >= 5)
        => \A t \in LaterTimes :
                ~HasId(ItemsReadyForRetry(syncQueue, t), item.id)
    /\ \A c \in Calls : \A i \in 1..Len(call[c].items) :
        ~(call[c].items[i].status = "failed"
          /\ call[c].items[i].retryCount >= 5)

\* a cycle submits another item while an item at the ceiling, long past any
\* backoff delay, is in the queue
C5_Witness ==
    \E c \in Calls : \E item \in QueueItems :
        /\ call[c].pc = "submit"
        /\ item.status = "failed"
        /\ item.retryCount >= 5
        /\ now - item.timestamp > 60000 * Pow2(item.retryCount)

\* the step in which call c reports its final status and clears isRunning
Reports(c) ==
    /\ call[c].pc \in {"fetch", "fin", "succ"}
    /\ call'[c].pc = "idle"

\* C6: when a cycle reports its final status and clears isRunning, no item
\* of the persisted queue has status processing.
C6_NoProcessingLeft ==
    [][\A c \in Calls :
        Reports(c) => \A i \in 1..Len(syncQueue') :
                        syncQueue'[i].status # "processing"]_vars

\* the step in which call c ends a cycle over at least one item
EndsLoop(c) ==
    /\ call[c].pc \in {"fin", "succ"}
    /\ call'[c].pc = "idle"

\* C7: at the end of a cycle over n >= 1 items, each item whose submission
\* succeeded is stored with status success and its retryCount unchanged,
\* each item whose submission answered success:false or threw is stored
\* with status failed, retryCount one higher and lastError set, and the
\* status reported is failed iff all n submissions failed, else completed.
C7_CycleOutcome ==
    [][\A c \in Calls : EndsLoop(c) =>
        /\ Len(call[c].log) = Len(call[c].items)
        /\ \A i \in 1..Len(call[c].items) :
            LET item == call[c].items[i]
                j == FindIndex(syncQueue', item.id) IN
            /\ j # 0
            /\ IF call[c].log[i].outcome = "ok"
               THEN /\ syncQueue'[j].status = "success"
                    /\ syncQueue'[j].retryCount = item.retryCount
               ELSE /\ syncQueue'[j].status = "failed"
                    /\ syncQueue'[j].retryCount = item.retryCount + 1
                    /\ "lastError" \in DOMAIN syncQueue'[j]
                    /\ syncQueue'[j].lastError # ""
        /\ lastStatus' =
            IF \A i \in 1..Len(call[c].log) : call[c].log[i].outcome # "ok"
            THEN "failed" ELSE "completed"]_vars

\* a cycle over two items about to end, one submitted with success, the
\* other one failed
C7_Witness ==
    \E c \in Calls :
        /\ call[c].pc = "fin"
        /\ call[c].sub = "sw"
        /\ Len(call[c].items) = 2
        /\ call[c].completed = 1
        /\ call[c].failed = 1

\* C8: the items of the eligible snapshot are submitted one at a time, each
\* once, in queue order (oldest enqueued first), and all of them are
\* submitted before the cycle ends, whatever the outcomes.
C8_AllSubmittedInOrder ==
    /\ Cardinality({c \in Calls : call[c].pc = "submit"}) <= 1
    /\ \A c \in Calls :
        /\ Len(call[c].log) <= Len(call[c].items)
        /\ \A i \in 1..Len(call[c].log) :
            call[c].log[i].id = call[c].items[i].id
        /\ \A i, j \in 1..Len(call[c].items) :
            i < j => call[c].items[i].id < call[c].items[j].id
        /\ call[c].pc \in {"fin", "succ"}
            => Len(call[c].log) = Len(call[c].items)

\* the first of two items failed and the second was submitted all the same
C8_Witness ==
    \E c \in Calls :
        /\ call[c].pc = "fin"
        /\ Len(call[c].log) = 2
        /\ call[c].log[1].outcome # "ok"

\* the step in which clearFailedItems returns after removing something
ClearReturns ==
    /\ remover.op = "clear"
    /\ remover'.pc = "idle"

C10_StatsAfterAdds ==
    adder.pc = "idle" =>
        /\ GetStats(TRUE).totalItems = nextId - 1
        /\ GetStats(TRUE).pendingItems = nextId - 1
        /\ GetStats(TRUE).failedItems = 0
        /\ GetStats(TRUE).successItems = 0
        /\ GetStats(TRUE).processingItems = 0
        /\ \A item \in QueueItems :
            item.status = "pending" /\ item.retryCount = 0

\* two calls of addToQueue have returned
C10_Witness ==
    /\ adder.pc = "idle"
    /\ nextId - 1 >= 2
    /\ Len(syncQueue) >= 2

\* C11: after any sequence of addToQueue calls the queue holds the items in
\* the order they were enqueued (timestamps never decrease along the queue)
\* and no two items of the queue have the same id.
C11_InsertionOrderUniqueIds ==
    \A i, j \in 1..Len(syncQueue) :
        i < j => /\ syncQueue[i].timestamp <= syncQueue[j].timestamp
                 /\ syncQueue[i].id # syncQueue[j].id

\* an item the retry gate may still select: pending, or failed below the ceiling
Retriable(item) ==
    \/ item.status = "pending"
    \/ item.status = "failed" /\ item.retryCount < 5

\* C12: shouldAttemptSync passes its connectivity test only when the device
\* is online, its queue test only when the queue holds a pending item or a
\* failed item with retryCount < 5, and its cooldown test only when
\* lastSyncAttempt is null or more than 60000 ms old; so it returns true
\* only if all three hold, and false when the queue holds nothing but
\* failed items at the ceiling.
C12_GateTrueOnlyIf ==
    [][\A c \in Calls :
        /\ ( /\ call[c].pc = "gate" /\ call[c].sub = "online"
             /\ call'[c].pc = "gate" /\ call'[c].sub = "items" )
           => online
        /\ ( /\ call[c].pc = "gate" /\ call[c].sub = "items"
             /\ call'[c].pc = "gate" /\ call'[c].sub = "stats" )
           => \E item \in QueueItems : Retriable(item)
        /\ ( /\ call[c].pc = "gate" /\ call[c].sub = "stats"
             /\ call'[c].pc = "stamp" )
           => \/ GetStats(TRUE).lastSyncAttempt = 0
              \/ now - GetStats(TRUE).lastSyncAttempt > 60000]_vars

\* ------------------------------------------------------------ offline, then online
\* the application starts offline with nothing queued; a forced drain of the
\* empty queue may just have stamped lastSyncAttempt
InitLive ==
    /\ syncQueue = <<>>
    /\ syncStats \in {<<>>,
                      <<[DefaultStats EXCEPT !.lastSyncAttempt = StartTime]>>}
    /\ isRunning = FALSE
    /\ online = FALSE
    /\ now = StartTime
    /\ lastStatus = "idle"
    /\ call = [c \in Calls |-> IdleCall]
    /\ adder = IdleAdder
    /\ remover = IdleRemover
    /\ probe = <<>>
    /\ nextId = 1
    /\ faults = 0
    /\ mode = "serial"
    /\ lifecycle = Initialized
    /\ submissions = SubmittedBefore(<<>>)
    /\ errorReporting = ErrorsAtStart
    /\ apiRateLimit = LimiterAtStart
    /\ storageService = StorageAtStart
    /\ apiClient = ClientAtStart

\* StorageService.saveFarmerData while there is no connectivity
AddOffline == ~online /\ AddToQueue

\* NetInfo reports that connectivity is back
Restore == ~online /\ SetOnline

\* the listeners and the 5-minute timer call attemptSync()
Trigger(trig) == \E c \in Calls : AttemptSync(c, trig)

\* ApiService.registerFarmer answers success
SubmitOk(c) == online /\ Submit(c) /\ call'[c].outcome = "ok"

\* one continuation of a running attemptSync
CycleStep(c) ==
    \/ GateOnline(c)
    \/ GateItems(c)
    \/ GateStats(c)
    \/ StampRead(c)
    \/ StampWrite(c)
    \/ Fetch(c)
    \/ CallUpdateRead(c)
    \/ CallUpdateWrite(c)
    \/ CallStatsQueue(c)
    \/ CallStatsStats(c)
    \/ CallStatsWrite(c)
    \/ SubmitOk(c)
    \/ SuccessRead(c)
    \/ SuccessWrite(c)

\* one continuation of a running addToQueue
AddStep ==
    \/ AddWrite
    \/ AddStatsQueue
    \/ AddStatsStats
    \/ AddStatsWrite

NextLive ==
    \/ AddOffline
    \/ Restore
    \/ Trigger("net")
    \/ Trigger("app")
    \/ Trigger("timer")
    \/ \E c \in Calls : CycleStep(c)
    \/ AddStep
    \/ Advance

\* promises that can continue do continue and setInterval keeps firing; the
\* clock moves on however often attemptSync is called in between
FairLive ==
    /\ \A c \in Calls : WF_vars(CycleStep(c))
    /\ WF_vars(AddStep)
    /\ SF_vars(Advance)
    /\ WF_vars(Trigger("timer"))

SpecLive == InitLive /\ [][NextLive]_vars /\ FairLive

\* the queue holds an item that waits to be submitted and the device is online
PendingOnline ==
    /\ online
    /\ \E item \in QueueItems : item.status = "pending"

\* a cycle has just delivered everything
Delivered ==
    /\ syncQueue # <<>>
    /\ \A item \in QueueItems : item.status = "success"
    /\ syncStats # <<>>
    /\ syncStats[1].pendingItems = 0
    /\ syncStats[1].lastSuccessfulSync = now
    /\ syncStats[1].lastSyncAttempt = now

\* C13: an item enqueued while offline is, once connectivity is back for
\* good and submissions succeed, eventually delivered by a cycle: the item
\* has status success, lastSuccessfulSync is the time of that cycle and
\* the pendingItems statistic is 0.
C13_EventuallyDelivered == PendingOnline ~> Delivered

\* every item was enqueued offline and a cycle has delivered all of them
C13_Witness ==
    /\ Delivered
    /\ Len(syncQueue) = MaxItems
    /\ Quiescent

\* C14: no operation of SyncQueueService throws at its caller when a
\* storage read or write throws; it returns a safe default instead.
C14_NoThrowToCaller ==
    \A i \in 1..Len(probe) :
        "threw" \in DOMAIN probe[i] => ~probe[i].threw

\* ------------------------------------------------------------ removal during a cycle
\* removeFromQueue(id) called while a sync cycle is suspended at an await
RemoveDuringSync(id) ==
    /\ remover.pc = "idle"
    /\ mode = "clear"
    /\ MayStart("clear")
    /\ remover' = [IdleRemover EXCEPT !.pc = "remove", !.sub = "read",
                                      !.op = "remove", !.work = <<id>>]
    /\ UNCHANGED <<syncQueue, syncStats, isRunning, online, now, lastStatus,
                   call, adder, probe, nextId, faults, mode, lifecycle,
                   submissions,
                   errorReporting, apiRateLimit,
                   storageService, apiClient>>

\* the queue holds one or two items that were just enqueued
FreshQueues ==
    {[i \in 1..n |-> NewItem(i, StartTime)] : n \in 1..MaxItems}

InitRemove ==
    /\ \E q \in FreshQueues : InitWith(q)
    /\ faults = 0
    /\ mode = "clear"

\* one continuation of a running removeFromQueue
RemoveStep ==
    \/ RemoveRead
    \/ RemoveWrite
    \/ RemoveStatsQueue
    \/ RemoveStatsStats
    \/ RemoveStatsWrite

\* one continuation of a running attemptSync, whatever the server answers
DrainStep(c) ==
    \/ GateOnline(c)
    \/ GateItems(c)
    \/ GateStats(c)
    \/ StampRead(c)
    \/ StampWrite(c)
    \/ Fetch(c)
    \/ CallUpdateRead(c)
    \/ CallUpdateWrite(c)
    \/ CallStatsQueue(c)
    \/ CallStatsStats(c)
    \/ CallStatsWrite(c)
    \/ Submit(c)
    \/ SuccessRead(c)
    \/ SuccessWrite(c)

NextRemove ==
    \/ \E trig \in Triggers : Trigger(trig)
    \/ \E c \in Calls : DrainStep(c)
    \/ \E id \in 1..MaxItems : RemoveDuringSync(id)
    \/ RemoveStep

\* sync cycles with removeFromQueue called at any moment
SpecRemove == InitRemove /\ [][NextRemove]_vars

\* no item of the persisted queue has this id
Absent(id) == \A i \in 1..Len(syncQueue) : syncQueue[i].id # id

\* call c comes back from the getQueue of updateQueueItem
UpdateReads(c) ==
    /\ call[c].pc \in {"mark", "res"}
    /\ call[c].sub = "read"
    /\ call'[c] # call[c]

\* C15: updateQueueItem and removeFromQueue with an id that is not in the
\* queue return without writing (false), queue and stats stay as they are;
\* updateQueueItem with an id that is in the queue writes the queue it
\* read with the fields named in the update set in that single item, all
\* its other fields and all other items as they were.
C15_UpdateTouchesOneItem ==
    [][/\ \A c \in Calls :
            LET id == call[c].items[call[c].idx].id
                u == PendingUpdate(call[c]) IN
            /\ (UpdateReads(c) /\ Absent(id)) =>
                /\ call'[c].sub # "write"
                /\ UNCHANGED <<syncQueue, syncStats>>
            /\ (UpdateReads(c) /\ ~Absent(id)) =>
                /\ call'[c].sub = "write"
                /\ Len(call'[c].q) = Len(syncQueue)
                /\ \A i \in 1..Len(syncQueue) :
                    IF syncQueue[i].id = id
                    THEN /\ \A f \in DOMAIN u : call'[c].q[i][f] = u[f]
                         /\ \A f \in (DOMAIN syncQueue[i]) \ (DOMAIN u) :
                                /\ f \in DOMAIN call'[c].q[i]
                                /\ call'[c].q[i][f] = syncQueue[i][f]
                    ELSE call'[c].q[i] = syncQueue[i]
            /\ ( /\ call[c].pc \in {"mark", "res"}
                 /\ call[c].sub = "write"
                 /\ call'[c].sub = "sq" ) => syncQueue' = call[c].q
       /\ ( /\ remover.pc = "remove"
            /\ remover.sub = "read"
            /\ remover' # remover
            /\ Absent(Head(remover.work)) ) =>
            /\ remover'.sub # "write"
            /\ UNCHANGED <<syncQueue, syncStats>>]_vars

\* the item a cycle is about to update was removed while it was submitted
C15_Witness ==
    \E c \in Calls :
        /\ call[c].pc = "res"
        /\ call[c].sub = "read"
        /\ Absent(call[c].items[call[c].idx].id)
        /\ syncQueue # <<>>

\* the counts of a stats record
Counts(st) ==
    <<st.totalItems, st.pendingItems, st.failedItems, st.successItems,
      st.processingItems>>

\* the counts of a queue
CountsOf(q) ==
    <<Len(q),
      Cardinality({i \in 1..Len(q) : q[i].status = "pending"}),
      Cardinality({i \in 1..Len(q) : q[i].status = "failed"}),
      Cardinality({i \in 1..Len(q) : q[i].status = "success"}),
      Cardinality({i \in 1..Len(q) : q[i].status = "processing"})>>

\* no storage operation has failed so far
NoFaultYet == mode # "serial" \/ faults = MaxFaults

\* C16: whatever the interleaving of the queue mutations, once all of them
\* have finished (and no storage operation failed) the counts getStats
\* returns are the counts of the current queue.
C16_StatsMatchQueueAtRest ==
    (Quiescent /\ NoFaultYet) => Counts(GetStats(TRUE)) = CountsOf(syncQueue)

\* ------------------------------------------------------------ initialize / dispose
\* calls of initialize in one run
MaxInits == 3

\* initialize: startNetworkListener and startPeriodicSync register a new
\* listener and a new interval and overwrite both fields
Initialize ==
    /\ lifecycle.inits < MaxInits
    /\ LET h == lifecycle.inits + 1 IN
       lifecycle' = [listeners |-> lifecycle.listeners \cup {h},
                     timers |-> lifecycle.timers \cup {h},
                     networkUnsubscribe |-> h,
                     syncInterval |-> h,
                     inits |-> h]
    /\ UNCHANGED <<syncQueue, syncStats, isRunning, online, now, lastStatus,
                   call, adder, remover, probe, nextId, faults, mode,
                   submissions,
                   errorReporting, apiRateLimit,
                   storageService, apiClient>>

\* dispose: clearInterval(this.syncInterval), this.networkUnsubscribe(), each
\* when the field is not null
Dispose ==
    /\ lifecycle' = [lifecycle EXCEPT
            !.timers = @ \ {lifecycle.syncInterval},
            !.syncInterval = 0,
            !.listeners = @ \ {lifecycle.networkUnsubscribe},
            !.networkUnsubscribe = 0]
    /\ UNCHANGED <<syncQueue, syncStats, isRunning, online, now, lastStatus,
                   call, adder, remover, probe, nextId, faults, mode,
                   submissions,
                   errorReporting, apiRateLimit,
                   storageService, apiClient>>

\* an interval that is still registered fires
TimerFires == lifecycle.timers # {} /\ Trigger("timer")

\* a NetInfo listener that is still registered is told of connectivity
ListenerFires == lifecycle.listeners # {} /\ Trigger("net")

InitLifecycle ==
    /\ \E q \in FreshQueues : syncQueue = q /\ syncStats = InitStats(q)
    /\ isRunning = FALSE
    /\ online = TRUE
    /\ now = StartTime
    /\ lastStatus = "idle"
    /\ call = [c \in Calls |-> IdleCall]
    /\ adder = IdleAdder
    /\ remover = IdleRemover
    /\ probe = <<>>
    /\ nextId = MaxItems + 1
    /\ faults = 0
    /\ mode = "serial"
    /\ lifecycle = Constructed
    /\ submissions = SubmittedBefore(<<>>)
    /\ errorReporting = ErrorsAtStart
    /\ apiRateLimit = LimiterAtStart
    /\ storageService = StorageAtStart
    /\ apiClient = ClientAtStart

NextLifecycle ==
    \/ Initialize
    \/ Dispose
    \/ TimerFires
    \/ ListenerFires
    \/ \E c \in Calls : DrainStep(c)
    \/ Advance

\* the manager is initialized and disposed of while the application runs
SpecLifecycle == InitLifecycle /\ [][NextLifecycle]_vars

\* C17: after any sequence of initialize and dispose calls at most one
\* connectivity listener and at most one interval are registered, and
\* once dispose has run (both fields are null) none is registered.
C17_AtMostOneListenerAndTimer ==
    /\ Cardinality(lifecycle.listeners) <= 1
    /\ Cardinality(lifecycle.timers) <= 1
    /\ (lifecycle.networkUnsubscribe = 0 /\ lifecycle.syncInterval = 0)
        => (lifecycle.listeners = {} /\ lifecycle.timers = {})

\* C18: over the whole life of an item, whatever the cycles and the
\* addToQueue calls interleaved with them, the submission collaborator is
\* called at most 5 times for it.
C18_AtMostFiveSubmissions ==
    \A id \in DOMAIN submissions : submissions[id] <= 5

\* call c starts a forced cycle: it goes straight to updateLastSyncAttempt
ForcedStart(c) ==
    /\ call[c].pc = "idle"
    /\ call'[c].pc = "stamp"
    /\ call'[c].force

AtCeiling(item) == item.status = "failed" /\ item.retryCount = 5

\* the step in which removeFromQueue, called directly or by
\* clearFailedItems, writes the queue without the item of this id
Removes(id) ==
    /\ remover.pc = "remove"
    /\ remover.sub = "write"
    /\ Head(remover.work) = id

\* C20: an item that is failed with retryCount 5 stays in the queue, failed
\* with retryCount 5 and otherwise unchanged, through every step but the
\* removeFromQueue that clearFailedItems or the user runs for it; no cycle,
\* whatever triggered it, takes it for submission; and whenever no
\* operation is under way it is counted in failedItems.
C20_CeilingItemStays ==
    /\ [][\A i \in 1..Len(syncQueue) :
            AtCeiling(syncQueue[i]) =>
                \/ \E j \in 1..Len(syncQueue') : syncQueue'[j] = syncQueue[i]
                \/ Removes(syncQueue[i].id)]_vars
    /\ [](\A c \in Calls : \A i \in 1..Len(call[c].items) :
            ~AtCeiling(call[c].items[i]))
    /\ [](Quiescent =>
            GetStats(TRUE).failedItems >=
                Cardinality({i \in 1..Len(syncQueue) :
                                AtCeiling(syncQueue[i])}))

\* ------------------------------------------------------------ ApiRateLimiter, calls
\* let limitData = this.rateLimits[key]; if (!limitData) { timestamps: [],
\* lastReset: Date.now() }
LimitData(rateLimits, key, t) ==
    IF rateLimits[key] = <<>>
    THEN [timestamps |-> <<>>, lastReset |-> t]
    ELSE rateLimits[key][1]

RECURSIVE KeepFrom(_, _)
\* timestamps.filter(timestamp => timestamp >= cutoff)
KeepFrom(timestamps, cutoff) ==
    IF timestamps = <<>> THEN <<>>
    ELSE IF Head(timestamps) >= cutoff
         THEN <<Head(timestamps)>> \o KeepFrom(Tail(timestamps), cutoff)
         ELSE KeepFrom(Tail(timestamps), cutoff)

CleanupNothing(limitData, timeWindow, t) == limitData

\* cleanupTimestamps with Date.now() = t
CleanupTimestamps(limitData, timeWindow, t) ==
    [timestamps |-> KeepFrom(limitData.timestamps, t - timeWindow),
     lastReset |-> IF limitData.lastReset < t - timeWindow
                   THEN t ELSE limitData.lastReset]

LimitExceededStrict(limitData, config) ==
    Len(limitData.timestamps) > config.maxRequests

\* limitData.timestamps.length >= limitConfig.maxRequests
LimitExceeded(limitData, config) ==
    Len(limitData.timestamps) >= config.maxRequests

\* limitData.timestamps.push(Date.now())
PushTimestamp(limitData, t) ==
    [limitData EXCEPT !.timestamps = Append(@, t)]

\* what a call handed back to its caller
Reply(op, r, v) == <<[op |-> op, request |-> r, returned |-> v]>>

LimiterFrame ==
    UNCHANGED <<syncQueue, syncStats, isRunning, online, now, lastStatus,
                call, adder, remover, probe, nextId, faults, mode, lifecycle,
                submissions, errorReporting, storageService, apiClient>>

\* isRequestAllowed(endpoint, config) on an initialized limiter: entry,
\* cleanup, the limit test, push, saveRateLimitData; nothing is awaited
\* before the push
IsRequestAllowed ==
    /\ \E r \in Requests :
        LET key == KeyOf(r)
            limitData == CleanupTimestamps(
                            LimitData(apiRateLimit.rateLimits, key, now),
                            r.config.timeWindow, now)
        IN  IF LimitExceeded(limitData, r.config)
            THEN apiRateLimit' =
                    [apiRateLimit EXCEPT
                        !.rateLimits[key] = <<limitData>>,
                        !.reply = Reply("isRequestAllowed", r, FALSE)]
            ELSE LET saved == [apiRateLimit.rateLimits EXCEPT
                                ![key] = <<PushTimestamp(limitData, now)>>]
                 IN  apiRateLimit' =
                        [rateLimits |-> saved, stored |-> saved,
                         reply |-> Reply("isRequestAllowed", r, TRUE)]
    /\ LimiterFrame

\* trackRequest(endpoint, config): entry, cleanup, push, saveRateLimitData
TrackRequest ==
    /\ \E r \in Requests :
        LET key == KeyOf(r)
            limitData == CleanupTimestamps(
                            LimitData(apiRateLimit.rateLimits, key, now),
                            r.config.timeWindow, now)
            saved == [apiRateLimit.rateLimits EXCEPT
                        ![key] = <<PushTimestamp(limitData, now)>>]
        IN  /\ Len(limitData.timestamps) < MaxTracked
            /\ apiRateLimit' =
                    [rateLimits |-> saved, stored |-> saved,
                     reply |-> Reply("trackRequest", r, FALSE)]
    /\ LimiterFrame

\* one millisecond passes between two calls of the limiter
Elapse ==
    /\ now < StartTime + MaxElapsed
    /\ now' = now + 1
    /\ UNCHANGED <<syncQueue, syncStats, isRunning, online, lastStatus, call,
                   adder, remover, probe, nextId, faults, mode, lifecycle,
                   submissions, errorReporting, apiRateLimit,
                   storageService, apiClient>>

InitLimiter ==
    /\ InitWith(<<>>)
    /\ faults = 0
    /\ mode = "serial"

\* the callers use isRequestAllowed only
NextAllowed ==
    \/ IsRequestAllowed
    \/ Elapse

SpecAllowed == InitLimiter /\ [][NextAllowed]_vars

\* the callers use isRequestAllowed and trackRequest
NextLimiter ==
    \/ IsRequestAllowed
    \/ TrackRequest
    \/ Elapse

SpecLimiter == InitLimiter /\ [][NextLimiter]_vars

\* the timestamps the limiter holds for a key, now and after the step
Recorded(key) == LimitData(apiRateLimit.rateLimits, key, now).timestamps

RecordedNext(key) == LimitData(apiRateLimit'.rateLimits, key, now').timestamps

\* how many timestamps of the key of r lie inside the last timeWindow ms
InWindowCount(r) ==
    Cardinality({i \in 1..Len(Recorded(KeyOf(r))) :
                    Recorded(KeyOf(r))[i] >= now - r.config.timeWindow})

\* the step in which operation op, called for r, hands back v
Answered(op, r, v) ==
    /\ now' = now
    /\ apiRateLimit'.reply = Reply(op, r, v)

StillInside(r) ==
    SelectSeq(Recorded(KeyOf(r)),
              LAMBDA ts : ts >= now - r.config.timeWindow)

\* after a call of isRequestAllowed or trackRequest for r, the timestamps
\* recorded before the call are those of StillInside(r), and at most the
\* current time was added behind them
KeepsInside(r) ==
    \A op \in {"isRequestAllowed", "trackRequest"} : \A v \in BOOLEAN :
        Answered(op, r, v) =>
            \/ RecordedNext(KeyOf(r)) = StillInside(r)
            \/ RecordedNext(KeyOf(r)) = Append(StillInside(r), now)

\* the oldest timestamp of the key of r is older than now - timeWindow
OldestLeft(r) ==
    /\ Recorded(KeyOf(r)) # <<>>
    /\ Recorded(KeyOf(r))[1] < now - r.config.timeWindow

MAX_QUEUE_SIZE == 50

\* errors handed to queueError
MaxErrors == 53

SliceFirst(q, n) == IF Len(q) <= n THEN q ELSE SubSeq(q, 1, n)

\* q.slice(-n), n > 0
SliceLast(q, n) ==
    IF Len(q) <= n THEN q ELSE SubSeq(q, Len(q) - n + 1, Len(q))

\* the queue after queueError(errorLog): push, and slice(-MAX_QUEUE_SIZE)
\* if it has grown past MAX_QUEUE_SIZE
Trimmed(q, errorLog) ==
    IF Len(Append(q, errorLog)) > MAX_QUEUE_SIZE
    THEN SliceLast(Append(q, errorLog), MAX_QUEUE_SIZE)
    ELSE Append(q, errorLog)

ErrorsFrame ==
    UNCHANGED <<syncQueue, syncStats, isRunning, online, now, lastStatus,
                call, adder, remover, probe, nextId, faults, mode, lifecycle,
                submissions, apiRateLimit,
                storageService, apiClient>>

\* logError while the service is offline: queueError(errorLog), which also
\* starts saveQueuedErrors; an ErrorLog is identified by its arrival number
QueueError ==
    /\ ~errorReporting.isOnline
    /\ errorReporting.queued < MaxErrors
    /\ LET errorLog == errorReporting.queued + 1
           q == Trimmed(errorReporting.errorQueue, errorLog)
       IN  errorReporting' =
                [errorReporting EXCEPT
                    !.errorQueue = q, !.stored = q, !.queued = errorLog]
    /\ ErrorsFrame

\* the NetInfo listener of initialize: isOnline = state.isConnected, and
\* sendQueuedErrors when back online with a non-empty queue: the queue is
\* emptied and saved, then each error is sent
ErrorsNetwork ==
    /\ \E connected \in BOOLEAN :
        /\ connected # errorReporting.isOnline
        /\ errorReporting' =
            IF connected /\ errorReporting.errorQueue # <<>>
            THEN [errorReporting EXCEPT
                    !.isOnline = connected,
                    !.errorQueue = <<>>, !.stored = <<>>,
                    !.sent = @ + Len(errorReporting.errorQueue)]
            ELSE [errorReporting EXCEPT !.isOnline = connected]
    /\ ErrorsFrame

InitErrors ==
    /\ InitWith(<<>>)
    /\ faults = 0
    /\ mode = "serial"

NextErrors ==
    \/ QueueError
    \/ ErrorsNetwork

SpecErrors == InitErrors /\ [][NextErrors]_vars

\* C23: the error queue never holds more than MAX_QUEUE_SIZE errors; each
\* queueError leaves in it the last MAX_QUEUE_SIZE (or all, if fewer) of the
\* errors it held followed by the new one; so the queue always holds the
\* most recently queued errors, oldest first.
C23_QueueBoundedMostRecent ==
    /\ [](Len(errorReporting.errorQueue) <= MAX_QUEUE_SIZE)
    /\ [](\A i \in 1..Len(errorReporting.errorQueue) :
            errorReporting.errorQueue[i] =
                errorReporting.queued - Len(errorReporting.errorQueue) + i)
    /\ [][errorReporting'.queued # errorReporting.queued =>
            LET all == Append(errorReporting.errorQueue,
                              errorReporting'.queued)
                kept == errorReporting'.errorQueue
            IN  /\ Len(kept) = IF Len(all) > MAX_QUEUE_SIZE
                               THEN MAX_QUEUE_SIZE ELSE Len(all)
                /\ \A i \in 1..Len(kept) :
                        kept[i] = all[Len(all) - Len(kept) + i]
         ]_vars

\* more than MAX_QUEUE_SIZE errors were queued and none was sent: the queue
\* is full and its oldest errors are gone
C23_Witness ==
    /\ errorReporting.sent = 0
    /\ errorReporting.queued > MAX_QUEUE_SIZE + 1
    /\ Len(errorReporting.errorQueue) = MAX_QUEUE_SIZE
    /\ errorReporting.errorQueue[1] > 2

\* ------------------------------------------------------------ the gate of a cycle
\* the step in which shouldAttemptSync has answered false and attemptSync
\* returns
Refused(c) == call[c].pc = "gate" /\ call'[c].pc = "idle"

\* C24: when the gate refuses a trigger that holds the guard, the status
\* subscriber is handed 'completed', isRunning is cleared and the queue is
\* as it was.
C24_RefusalEmitsCompleted ==
    [][\A c \in Calls :
        Refused(c) =>
            /\ lastStatus' = "completed"
            /\ ~isRunning'
            /\ syncQueue' = syncQueue]_vars

\* the step in which the answer of the gate is acted upon
GateAnswered(c) == call[c].pc = "gate" /\ call'[c].pc # "gate"

\* C25 as stated: by the time the gate of a cycle is answered, yes or no,
\* the cycle has set isRunning, has stamped lastSyncAttempt with the current
\* time and has handed 'syncing' to the status subscriber.
C25_StampedBeforeGate ==
    [][\A c \in Calls :
        GateAnswered(c) =>
            /\ isRunning
            /\ GetStats(TRUE).lastSyncAttempt = now
            /\ lastStatus = "syncing"]_vars

\* the step in which updateLastSyncAttempt has returned and 'syncing' is
\* emitted
Stamps(c) == call[c].pc = "stamp" /\ call'[c].pc = "fetch"

\* C25, amended: a trigger that finds isRunning false sets isRunning and has
\* the gate answered first; only a cycle that passed the gate, or a forced
\* one, then stamps lastSyncAttempt with the current time and emits
\* 'syncing', both before it fetches the eligible items, so also when it
\* then finds none; a refused trigger writes no stamp and emits nothing.
C25_StampedAfterGate ==
    /\ [](\A c \in Calls : call[c].pc # "idle" => isRunning)
    /\ [][\A c \in Calls :
            /\ Stamps(c) =>
                /\ lastStatus' = "syncing"
                /\ syncStats' # <<>>
                /\ syncStats'[1].lastSyncAttempt = now
            /\ Refused(c) =>
                /\ syncStats' = syncStats
                /\ lastStatus' = lastStatus
         ]_vars
    /\ [](\A c \in Calls :
            call[c].pc = "fetch" =>
                /\ lastStatus = "syncing"
                /\ GetStats(TRUE).lastSyncAttempt = now)

\* a timer or connectivity cycle has passed the gate, has stamped and has
\* emitted 'syncing', and is about to find that no item is eligible
C25_Witness ==
    \E c \in Calls :
        /\ call[c].pc = "fetch"
        /\ ~call[c].force
        /\ ItemsReadyForRetry(syncQueue, now) = <<>>
        /\ lastStatus = "syncing"

\* ------------------------------------------------------------ cooldown
\* a fresh installation, online; addToQueue may be called while a cycle runs
InitCooldown ==
    /\ InitWith(<<>>)
    /\ faults = 0
    /\ mode = "add"

\* only the connectivity listener and the timer call attemptSync, as often
\* as they like, within MaxTicks milliseconds
NextCooldown ==
    \/ Trigger("net")
    \/ Trigger("timer")
    \/ \E c \in Calls : DrainStep(c)
    \/ AddToQueue
    \/ AddStep
    \/ Tick

SpecCooldown == InitCooldown /\ [][NextCooldown]_vars

\* the step in which shouldAttemptSync answers true to attemptSync
GatePassed(c) == call[c].pc = "gate" /\ call'[c].pc = "stamp"

\* C26: two cycles started by the timer or by connectivity events that both
\* pass the gate are more than SYNC_COOLDOWN_MS apart. In a run that lasts
\* less than that (MaxTicks ms) and has no forced trigger: a cycle passes the
\* gate only if none has passed it before, that is only while 'syncing' has
\* never been emitted.
C26_PassesSpacedByCooldown ==
    [][\A c \in Calls :
        GatePassed(c) /\ now - StartTime <= SYNC_COOLDOWN_MS =>
            lastStatus = "idle"]_vars

\* ------------------------------------------------------------ end of a cycle
\* at least one submission of the cycle was answered with success
Succeeded(cr) == \E i \in 1..Len(cr.log) : cr.log[i].outcome = "ok"

\* the stored lastSuccessfulSync
LastSuccess == GetStats(TRUE).lastSuccessfulSync

\* C27: a cycle writes lastSuccessfulSync (the current time) if and only if
\* one of its submissions succeeded, and it does so as its last storage
\* operation; no other step of a call changes lastSuccessfulSync, so a cycle
\* whose submissions all failed, or that found no eligible item, leaves it
\* as it was; and a cycle returns true if and only if a submission
\* succeeded or no item was eligible.
C27_SuccessStampAndResult ==
    [][\A c \in Calls :
        /\ call[c].pc # "idle" /\ ~(call[c].pc = "succ" /\ Reports(c)) =>
                LastSuccess' = LastSuccess
        /\ Reports(c) =>
            /\ call[c].pc = "succ" <=> Succeeded(call[c])
            /\ call[c].pc = "succ" => LastSuccess' = now
            /\ ReturnValue(call[c]) <=>
                    (Succeeded(call[c]) \/ call[c].items = <<>>)
      ]_vars

\* a cycle whose only submission failed is about to end, after an earlier
\* cycle had a success some time ago
C27_Witness ==
    \E c \in Calls :
        /\ call[c].pc = "fin"
        /\ call[c].sub = "sw"
        /\ call[c].completed = 0
        /\ LastSuccess > 0
        /\ LastSuccess < now

\* ------------------------------------------------------------ progress events
\* how many of the first i submissions of a call were answered with success
OkAmong(cr, i) ==
    Cardinality({k \in 1..i : cr.log[k].outcome = "ok"})

\* the i-th progress event of a call says: n items in all, and of the first
\* i as many completed and failed as submissions succeeded and failed
EventMatches(cr, i) ==
    /\ cr.progress[i].total = Len(cr.items)
    /\ cr.progress[i].completed = OkAmong(cr, i)
    /\ cr.progress[i].failed = i - OkAmong(cr, i)
    /\ i > 1 => /\ cr.progress[i].completed >= cr.progress[i - 1].completed
                /\ cr.progress[i].failed >= cr.progress[i - 1].failed

\* C28: a cycle over n items emits one progress event after each item, in
\* processing order: event i comes after the outcome of item i is recorded
\* and before item i + 1 is marked processing, carries total = n and the
\* numbers of successes and failures among the first i items (so completed
\* and failed never decrease and add up to i), and all n events have been
\* emitted when the final status is reported.
C28_ProgressPerItem ==
    /\ [](\A c \in Calls :
            /\ \A i \in 1..Len(call[c].progress) : EventMatches(call[c], i)
            /\ Len(call[c].progress) <= Len(call[c].log)
            /\ Len(call[c].progress) >= Len(call[c].log) - 1
            /\ Len(call[c].progress) < Len(call[c].log) => call[c].pc = "res"
            /\ call[c].pc \in {"mark", "submit"} =>
                    Len(call[c].progress) = call[c].idx - 1)
    /\ [][\A c \in Calls :
            /\ EndsLoop(c) => Len(call[c].progress) = Len(call[c].items)
            /\ call'[c].pc # "idle" /\ call[c].pc # "idle" =>
                    \/ call'[c].progress = call[c].progress
                    \/ /\ Len(call'[c].progress) = Len(call[c].progress) + 1
                       /\ SubSeq(call'[c].progress, 1, Len(call[c].progress))
                            = call[c].progress
         ]_vars

\* a cycle over two items is about to report its final status; it has
\* emitted (2, 0, 1) and then (2, 1, 1)
C28_Witness ==
    \E c \in Calls :
        /\ call[c].pc = "fin"
        /\ call[c].progress =
            <<[total |-> 2, completed |-> 0, failed |-> 1],
              [total |-> 2, completed |-> 1, failed |-> 1]>>

\* ------------------------------------------------------------ item fields
\* C29: an item of the persisted queue carries lastError only while its
\* status is failed.
C29_LastErrorOnlyOnFailed ==
    \A i \in 1..Len(syncQueue) :
        "lastError" \in DOMAIN syncQueue[i] => syncQueue[i].status = "failed"

\* C30: at most one item of the persisted queue has status processing.
C30_AtMostOneProcessing ==
    Cardinality({i \in 1..Len(syncQueue) :
                    syncQueue[i].status = "processing"}) <= 1

\* ------------------------------------------------------------ restart after a crash
\* an item a cycle had marked processing when the application was killed,
\* one clock step before this start
StuckItem(id) ==
    [id |-> id, status |-> "processing", retryCount |-> 0,
     timestamp |-> StartTime - JumpMs]

\* the queue found in storage at the restart: the stuck item, alone or
\* followed by an item that was still pending
RestartQueues ==
    {<<StuckItem(1)>>, <<StuckItem(1), NewItem(2, StartTime - JumpMs)>>}

\* the application starts again; storage works
InitRestart ==
    /\ \E q \in RestartQueues : InitWith(q)
    /\ faults = 0
    /\ mode = "serial"

NextRestart ==
    \/ \E trig \in Triggers : Trigger(trig)
    \/ \E c \in Calls : DrainStep(c)
    \/ AddToQueue
    \/ AddStep
    \/ Advance

SpecRestart == InitRestart /\ [][NextRestart]_vars

\* the step in which a cycle gets its eligible items
Fetches(c) == call[c].pc = "fetch" /\ call'[c].pc # "fetch"

\* C31: an item the restarted application finds with status processing is
\* handled as a failed one: every cycle that fetches its eligible items gets
\* each item that is stored as processing (no cycle is working on an item at
\* that moment, so such an item is a stuck one).
C31_StuckItemRetried ==
    [][\A c \in Calls :
        Fetches(c) =>
            \A i \in 1..Len(syncQueue) :
                syncQueue[i].status = "processing" =>
                    \E k \in 1..Len(call'[c].items) :
                        call'[c].items[k].id = syncQueue[i].id]_vars

\* ------------------------------------------------------------ interleaved queue operations
\* the step in which addToQueue stores the queue it built from its own read
AddStores == adder.pc = "write" /\ adder'.pc = "sq"

\* C32: queue operations act as serialized read-modify-write steps: when
\* addToQueue runs interleaved with a cycle and storage never fails, the
\* write of addToQueue loses no update: every item that is stored just
\* before the write is stored after it with the same status.
C32_AddLosesNoUpdate ==
    [][(mode = "add" /\ AddStores) =>
        \A i \in 1..Len(syncQueue) :
            \E k \in 1..Len(syncQueue') :
                /\ syncQueue'[k].id = syncQueue[i].id
                /\ syncQueue'[k].status = syncQueue[i].status]_vars

\* ------------------------------------------------------------ subscribers that throw
\* the outer catch block of attemptSync: onSyncStatusChange('failed') is
\* called before isRunning is cleared; when the subscriber throws again the
\* exception leaves attemptSync and the two lines after it are not run
OuterCatch(c, rethrows) ==
    IF rethrows
    THEN /\ Return(c)
         /\ UNCHANGED <<isRunning, lastStatus>>
    ELSE /\ lastStatus' = "failed"
         /\ isRunning' = FALSE
         /\ Return(c)

\* updateLastSyncAttempt: setItem; then onSyncStatusChange('syncing') throws
StampWriteThrows(c) ==
    /\ call[c].pc = "stamp" /\ call[c].sub = "write"
    /\ \E ok \in StorageOutcomes :
        /\ Spend(ok)
        /\ syncStats' = IF ok THEN <<call[c].s>> ELSE syncStats
    /\ \E rethrows \in BOOLEAN : OuterCatch(c, rethrows)
    /\ UNCHANGED <<syncQueue, online, now, adder, remover, probe, nextId, mode,
                   lifecycle, submissions,
                   errorReporting, apiRateLimit,
                   storageService, apiClient>>

\* the outcome of an item was recorded; then onSyncProgress throws
ProgressThrows(c) ==
    /\ call[c].pc = "res" /\ call[c].sub = "sw"
    /\ \E ok \in StorageOutcomes :
        /\ Spend(ok)
        /\ syncStats' = IF ok THEN <<call[c].s>> ELSE syncStats
    /\ \E rethrows \in BOOLEAN : OuterCatch(c, rethrows)
    /\ UNCHANGED <<syncQueue, online, now, adder, remover, probe, nextId, mode,
                   lifecycle, submissions,
                   errorReporting, apiRateLimit,
                   storageService, apiClient>>

\* updateLastSuccessfulSync: setItem; then the onSyncStatusChange that
\* reports the final status throws
FinalStatusThrows(c) ==
    /\ call[c].pc = "succ" /\ call[c].sub = "write"
    /\ \E ok \in StorageOutcomes :
        /\ Spend(ok)
        /\ syncStats' = IF ok THEN <<call[c].s>> ELSE syncStats
    /\ \E rethrows \in BOOLEAN : OuterCatch(c, rethrows)
    /\ UNCHANGED <<syncQueue, online, now, adder, remover, probe, nextId, mode,
                   lifecycle, submissions,
                   errorReporting, apiRateLimit,
                   storageService, apiClient>>

\* a subscriber callback throws at one of its calls
SubscriberThrows(c) ==
    \/ StampWriteThrows(c)
    \/ ProgressThrows(c)
    \/ FinalStatusThrows(c)

\* items are queued, storage works, the subscribers may throw
InitSubscribers ==
    /\ InitCommon
    /\ faults = 0
    /\ mode = "serial"

NextSubscribers ==
    \/ \E trig \in Triggers : Trigger(trig)
    \/ \E c \in Calls : DrainStep(c)
    \/ \E c \in Calls : SubscriberThrows(c)
    \/ AddToQueue
    \/ AddStep
    \/ Advance

SpecSubscribers == InitSubscribers /\ [][NextSubscribers]_vars

\* the step in which a call of attemptSync ends, by a return or by an
\* exception
Leaves(c) == call[c].pc # "idle" /\ call'[c].pc = "idle"

\* C33: every started cycle clears isRunning on every exit path, an
\* exception thrown by a subscriber callback included: when a call of
\* attemptSync that started a cycle ends, isRunning is false.
C33_EveryExitClearsIsRunning ==
    [][\A c \in Calls : Leaves(c) => ~isRunning']_vars

\* ------------------------------------------------------------ success is terminal
\* the step in which call c hands the item at idx to the server
Submits(c) == call[c].pc = "submit" /\ call'[c].pc = "res"

\* C34: status success is terminal under every interleaving of cycles with
\* addToQueue, clearFailedItems and removeFromQueue: an item stored with
\* status success that is still stored after a step still has status
\* success, and no cycle submits an item that is stored with status success.
C34_SuccessIsTerminal ==
    [][/\ \A i \in 1..Len(syncQueue), k \in 1..Len(syncQueue') :
            (syncQueue[i].status = "success"
             /\ syncQueue'[k].id = syncQueue[i].id)
            => syncQueue'[k].status = "success"
       /\ \A c \in Calls :
            Submits(c) =>
                \A i \in 1..Len(syncQueue) :
                    syncQueue[i].id = CurrentItem(call[c]).id
                    => syncQueue[i].status # "success"]_vars

\* ------------------------------------------------------------ the persisted timestamps
\* C35: the persisted lastSyncAttempt and lastSuccessfulSync never decrease
\* and are never lost when storage never fails: no step replaces the stored
\* stats record by one with an older (or no) lastSyncAttempt or
\* lastSuccessfulSync, whichever operations overlap.
C35_StampsNeverDecrease ==
    [][(mode # "serial" /\ syncStats # <<>>) =>
        /\ syncStats' # <<>>
        /\ syncStats'[1].lastSyncAttempt >= syncStats[1].lastSyncAttempt
        /\ syncStats'[1].lastSuccessfulSync
                >= syncStats[1].lastSuccessfulSync]_vars

\* ------------------------------------------------------------ StorageService
\* SyncQueueService.addToQueue(data) as StorageService calls it: the same
\* first step as AddToQueue (getQueue, the new item is pushed)
AddToQueueCalled ==
    /\ adder.pc = "idle"
    /\ MayStart("add")
    /\ nextId <= MaxItems
    /\ \E ok \in StorageOutcomes :
        /\ Spend(ok)
        /\ adder' = [adder EXCEPT
                !.q = Push(GetQueue(ok), NewItem(nextId, now)),
                !.id = nextId,
                !.pc = "write"]
    /\ nextId' = nextId + 1
    /\ UNCHANGED <<syncQueue, syncStats, isRunning, online, now, lastStatus,
                   call, remover, probe, mode, lifecycle, submissions,
                   errorReporting, apiRateLimit, apiClient>>

\* getPendingRegistrations: the stored list, or [] when the read throws
GetPendingRegistrations(ok) ==
    IF ok THEN storageService.pendingRegistrations ELSE <<>>

\* everything but storageService
StorageFrame ==
    UNCHANGED <<syncQueue, syncStats, isRunning, online, now, lastStatus,
                call, adder, remover, probe, nextId, mode, lifecycle,
                submissions, errorReporting, apiRateLimit, apiClient>>

\* saveFarmerData(data) for a new registration: addToQueue(data) first
SaveFarmerData ==
    /\ storageService.pc = "idle"
    /\ AddToQueueCalled
    /\ storageService' = [storageService EXCEPT
            !.saved = @ + 1,
            !.data[nextId] = storageService.saved + 1,
            !.pc = "save"]

\* saveFarmerData: addToQueue returned (or threw: the exception is thrown
\* again); getPendingRegistrations, existingData.push(data)
SaveRead ==
    /\ storageService.pc = "save"
    /\ adder.pc = "idle"
    /\ IF probe = Thrown("addToQueue")
       THEN /\ storageService' = [storageService EXCEPT !.pc = "idle"]
            /\ UNCHANGED faults
       ELSE \E ok \in StorageOutcomes :
            /\ Spend(ok)
            /\ storageService' = [storageService EXCEPT
                    !.existingData =
                        Append(GetPendingRegistrations(ok),
                               storageService.saved),
                    !.pc = "write"]
    /\ StorageFrame

\* saveFarmerData: setItem of the legacy list; return queueItemId
SaveWrite ==
    /\ storageService.pc = "write"
    /\ \E ok \in StorageOutcomes :
        /\ Spend(ok)
        /\ storageService' = [storageService EXCEPT
                !.pendingRegistrations =
                    IF ok THEN storageService.existingData ELSE @,
                !.existingData = <<>>,
                !.pc = "idle"]
    /\ StorageFrame

\* the application starts and the migration effect of AppProvider calls
\* migrateToSyncQueue: getPendingRegistrations; an empty list returns 0
MigrateToSyncQueue ==
    /\ storageService.pc = "idle"
    /\ Quiescent
    /\ \E ok \in StorageOutcomes :
        /\ Spend(ok)
        /\ LET oldData == GetPendingRegistrations(ok) IN
           storageService' =
                IF oldData = <<>> THEN storageService
                ELSE [storageService EXCEPT
                        !.oldData = oldData, !.idx = 1, !.pc = "migrate"]
    /\ StorageFrame

\* migrateToSyncQueue: addToQueue(data) for the next entry of the old list
MigrateAdd ==
    /\ storageService.pc = "migrate"
    /\ storageService.idx <= Len(storageService.oldData)
    /\ probe # Thrown("addToQueue")
    /\ AddToQueueCalled
    /\ storageService' = [storageService EXCEPT
            !.data[nextId] = storageService.oldData[storageService.idx],
            !.idx = @ + 1]

\* migrateToSyncQueue: the loop is over, clearPendingRegistrations
\* (removeItem); or addToQueue threw and the catch block returns 0
MigrateClear ==
    /\ storageService.pc = "migrate"
    /\ adder.pc = "idle"
    /\ \/ storageService.idx > Len(storageService.oldData)
       \/ probe = Thrown("addToQueue")
    /\ IF probe = Thrown("addToQueue")
       THEN /\ storageService' = [storageService EXCEPT
                    !.oldData = <<>>, !.idx = 0, !.pc = "idle"]
            /\ UNCHANGED faults
       ELSE \E ok \in StorageOutcomes :
            /\ Spend(ok)
            /\ storageService' = [storageService EXCEPT
                    !.pendingRegistrations = IF ok THEN <<>> ELSE @,
                    !.oldData = <<>>, !.idx = 0, !.pc = "idle"]
    /\ StorageFrame

\* a fresh installation, online, storage works
InitStorage ==
    /\ InitWith(<<>>)
    /\ faults = 0
    /\ mode = "serial"

NextStorage ==
    \/ SaveFarmerData
    \/ SaveRead
    \/ SaveWrite
    \/ MigrateToSyncQueue
    \/ MigrateAdd
    \/ MigrateClear
    \/ AddStep
    \/ \E trig \in Triggers : Trigger(trig)
    \/ \E c \in Calls : DrainStep(c)
    \/ Advance

SpecStorage == InitStorage /\ [][NextStorage]_vars

\* the queue items that carry registration r
ItemsOf(r) ==
    {i \in 1..Len(syncQueue) : storageService.data[syncQueue[i].id] = r}

\* C36: a registration saved with saveFarmerData is in the sync queue at
\* most once, also after migrateToSyncQueue has run at the next start of
\* the application: no registration is the data of two queue items.
C36_RegistrationQueuedOnce ==
    \A r \in 1..storageService.saved : Cardinality(ItemsOf(r)) <= 1

\* ------------------------------------------------------------ failed reads
\* C37: a storage read that fails inside addToQueue (getQueue answers its
\* safe default, the empty list) destroys no data: with no other operation
\* in flight, every item that is stored before addToQueue writes the queue
\* is stored after the write.
C37_FailedReadKeepsItems ==
    [][(mode = "serial" /\ AddStores) =>
        \A i \in 1..Len(syncQueue) :
            \E k \in 1..Len(syncQueue') :
                syncQueue'[k].id = syncQueue[i].id]_vars

\* ------------------------------------------------------------ ApiClient.request and the limiter
\* isRequestAllowed answered true and the request has not gone on yet
AllowedPending ==
    \E r \in Requests :
        apiRateLimit.reply = Reply("isRequestAllowed", r, TRUE)

\* ApiClient.request, online: await ApiRateLimit.isRequestAllowed(endpoint);
\* a refusal throws ApiError 429
RequestCheck ==
    /\ ~AllowedPending
    /\ IsRequestAllowed

\* ApiClient.request after isRequestAllowed answered true:
\* ApiRateLimit.trackRequest(endpoint), then the fetch
RequestTrack ==
    /\ AllowedPending
    /\ TrackRequest
    /\ \E r \in Requests :
        /\ apiRateLimit.reply = Reply("isRequestAllowed", r, TRUE)
        /\ apiRateLimit'.reply = Reply("trackRequest", r, FALSE)

\* every call of the limiter is made by ApiClient.request
NextRequest ==
    \/ RequestCheck
    \/ RequestTrack
    \/ Elapse

SpecRequest == InitLimiter /\ [][NextRequest]_vars

\* C38: a request made through ApiClient.request is counted once against its
\* rate-limit key, so that no key ever holds more than maxRequests
\* timestamps inside its window.
C38_RequestCountedOnce ==
    \A r \in Requests : InWindowCount(r) <= r.config.maxRequests

\* ------------------------------------------------------------ ApiClient offline queue
\* queuedRequest.retryCount < 3
MAX_REPLAY_RETRIES == 3

\* requests the client makes while it is offline
MaxOfflineRequests == 2

\* the longest requestQueue a replay is let to build
MaxRequestQueue == 4

\* what the replay of a queued request ends in: the server answers, the
\* request throws an ApiError (error status, 429, timeout after the
\* retries), or fetch fails with 'Network request failed'
ReplayOutcomes == {"ok", "error", "network"}

\* the QueuedRequest queueRequest builds; request stands for the endpoint
\* with its options (the generated id and the timestamp are left out)
QueuedRequest(request) == [request |-> request, retryCount |-> 0]

\* the catch block of the replay loop: retryCount++ and push while
\* retryCount < 3, else the request is dropped
Requeue(queuedRequest) ==
    IF queuedRequest.retryCount < MAX_REPLAY_RETRIES
    THEN <<[queuedRequest EXCEPT !.retryCount = @ + 1]>>
    ELSE <<>>

\* everything but apiClient
ClientFrame ==
    UNCHANGED <<syncQueue, syncStats, isRunning, online, now, lastStatus,
                call, adder, remover, probe, nextId, faults, mode, lifecycle,
                submissions, errorReporting, apiRateLimit, storageService>>

\* request() while the client is offline: queueRequest pushes the request
\* and rejects
RequestOffline ==
    /\ ~apiClient.isOnline
    /\ apiClient.made < MaxOfflineRequests
    /\ Len(apiClient.requestQueue) < MaxRequestQueue
    /\ apiClient' = [apiClient EXCEPT
            !.requestQueue = Append(@, QueuedRequest(apiClient.made + 1)),
            !.made = @ + 1]
    /\ ClientFrame

\* may processQueue start a pass
MayProcess(isOnline) ==
    /\ ~apiClient.isProcessingQueue
    /\ apiClient.requestQueue # <<>>
    /\ isOnline

\* the NetInfo listener of initialize: isOnline is updated and, when the
\* client is online with requests queued, processQueue is called, which
\* returns at once or takes the queue over and empties it
NetworkListener ==
    /\ \E isConnected \in BOOLEAN :
        apiClient' =
            IF isConnected /\ MayProcess(isConnected)
            THEN [apiClient EXCEPT
                    !.isOnline = isConnected,
                    !.isProcessingQueue = TRUE,
                    !.queueToProcess = apiClient.requestQueue,
                    !.requestQueue = <<>>]
            ELSE [apiClient EXCEPT !.isOnline = isConnected]
    /\ ClientFrame

\* processQueue replays the next request of queueToProcess with
\* this.request(endpoint, options): offline, or when fetch fails with
\* 'Network request failed', request hands it to queueRequest, which pushes
\* a new QueuedRequest and rejects; every rejection reaches the catch block
\* of the loop
Replay ==
    /\ apiClient.isProcessingQueue
    /\ apiClient.queueToProcess # <<>>
    /\ \E o \in ReplayOutcomes :
        LET queuedRequest == Head(apiClient.queueToProcess)
            queuedAgain ==
                IF o = "network"
                THEN <<QueuedRequest(queuedRequest.request)>>
                ELSE <<>>
            pushed ==
                IF o = "ok" THEN <<>>
                ELSE queuedAgain \o Requeue(queuedRequest)
        IN  /\ ~apiClient.isOnline => o = "network"
            /\ Len(apiClient.requestQueue) + Len(pushed) <= MaxRequestQueue
            /\ apiClient' = [apiClient EXCEPT
                    !.requestQueue = @ \o pushed,
                    !.queueToProcess = Tail(@)]
    /\ ClientFrame

\* processQueue after the loop: saveQueuedRequests, finally
\* isProcessingQueue = false
FinishPass ==
    /\ apiClient.isProcessingQueue
    /\ apiClient.queueToProcess = <<>>
    /\ apiClient' = [apiClient EXCEPT !.isProcessingQueue = FALSE]
    /\ ClientFrame

InitClient ==
    /\ InitWith(<<>>)
    /\ faults = 0
    /\ mode = "serial"

NextClient ==
    \/ RequestOffline
    \/ NetworkListener
    \/ Replay
    \/ FinishPass

SpecClient == InitClient /\ [][NextClient]_vars

\* C39: the offline request queue holds each queued request at most once: a
\* replay that fails puts the request back once, with retryCount one
\* higher, and never adds a second copy of it with retryCount 0.
C39_RequestQueuedOnce ==
    \A i, j \in 1..Len(apiClient.requestQueue) :
        i # j =>
            apiClient.requestQueue[i].request
                # apiClient.requestQueue[j].request

====
